---- MODULE Spec2Model ----
(***************************************************************************)
(* PennyWise: the deduplicating ledger store (DataProcessing/database.py), *)
(* the sanitizer and the cache-first category classifier                   *)
(* (DataProcessing/preprocess.py), the statement parser                    *)
(* (DataProcessing/parser.py) and the agent's tools (Agent/tools.py).      *)
(*                                                                         *)
(* Spec          concurrent save_transactions calls on one SQLite file     *)
(* SpecSeq       the same calls, one at a time                             *)
(* SpecImport    imports of one client: categorize, then save_transactions *)
(*               on the DataFrame it returned                              *)
(* SpecParse     _parse_llm_response on every response text of ParseDocs   *)
(* SpecCat       categorize calls of both clients at once                  *)
(* SpecStatement _parse_transactions on texts of headers and sections      *)
(* SpecYear      _parse_transactions on one header and one line            *)
(* SpecDialect   the year inference of the credit and debit dialects       *)
(* SpecSanitize  _sanitize_description applied twice                       *)
(* SpecUpload    process_upload: sanitize, categorize, save_transactions   *)
(* SpecTools     compare_periods and detect_anomalies                      *)
(* SpecQuery     FinanceTools on the stored ledger: execute, run_query     *)
(* SpecPipeline  process_upload from its first line                        *)
(* SpecClear     imports, clear_transactions and clear_category_cache      *)
(***************************************************************************)
EXTENDS Integers, Sequences, FiniteSets, TLC

(***************************************************************************)
(* Bounds of the model.                                                    *)
(***************************************************************************)
\* save_transactions calls begun in one behaviour
MaxCalls == 3

\* categorize calls begun in one behaviour
MaxCatCalls == 2

\* the largest batch size _parse_llm_response is tried with
MaxBatch == 2

\* the clients (Streamlit sessions) that may call save_transactions at once
Procs == {1, 2}

\* Python's None
None == "<None>"

\* Python truthiness of an optional string: None and "" are false
Truthy(s) == s # None /\ s # ""

(***************************************************************************)
(* The inputs: categorized DataFrame rows (Date, Description, Amount,      *)
(* Category).  Amounts are in cents.  R1 and R2 are the same logical       *)
(* transaction under different categories; R4 differs from R1 in the       *)
(* amount alone.                                                           *)
(***************************************************************************)
R1 == [Date |-> <<2024, 11, 15>>, Description |-> "AMAZON.COM", Amount |-> -4567, Category |-> "shopping"]

R2 == [Date |-> <<2024, 11, 15>>, Description |-> "AMAZON.COM", Amount |-> -4567, Category |-> "other"]

R3 == [Date |-> <<2025, 1, 5>>, Description |-> "PAY|ROLL", Amount |-> 20000, Category |-> "income"]

R4 == [Date |-> <<2024, 11, 15>>, Description |-> "AMAZON.COM", Amount |-> -4560, Category |-> "shopping"]

DfPool == {<<>>, <<R1>>, <<R3>>, <<R1, R4>>, <<R2, R1>>, <<R3, R1, R3>>}

FilePool == {None, "a.pdf", "b.pdf"}

\* (card_type, bank) of the calls of client p
Client(p) == IF p = 1 THEN <<"credit", "Chase">> ELSE <<"debit", None>>

(***************************************************************************)
(* Formatting, as the code formats.                                        *)
(***************************************************************************)
\* %m, %d: two digits, zero padded
Pad2(n) == IF n < 10 THEN "0" \o ToString(n) ELSE ToString(n)

\* %Y: four digits, zero padded
Pad4(n) ==
    IF n < 10 THEN "000" \o ToString(n)
    ELSE IF n < 100 THEN "00" \o ToString(n)
    ELSE IF n < 1000 THEN "0" \o ToString(n)
    ELSE ToString(n)

\* df['Date'].dt.strftime('%Y-%m-%d')
strftime(d) == Pad4(d[1]) \o "-" \o Pad2(d[2]) \o "-" \o Pad2(d[3])

\* f"{amount}" of a float holding cents/100: shortest repr, at least one
\* fractional digit ("-45.67", "45.6", "200.0")
FloatStr(cents) ==
    LET a  == IF cents < 0 THEN -cents ELSE cents
        ip == a \div 100
        fp == a % 100
    IN  (IF cents < 0 THEN "-" ELSE "") \o ToString(ip) \o "." \o
        (IF fp % 10 = 0 THEN ToString(fp \div 10) ELSE Pad2(fp))

\* a mutant of _generate_txn_hash: the amount is left out of the digest
HashWithoutAmount(date, description, amount) == date \o "|" \o description

\* _generate_txn_hash: md5 of "date|description|amount"; md5 is taken to be
\* collision free, so the digest is identified with the string it digests
_generate_txn_hash(date, description, amount) ==
    date \o "|" \o description \o "|" \o FloatStr(amount)

(***************************************************************************)
(* The classifier's vocabulary, inputs and pure functions.                 *)
(***************************************************************************)
\* config.CATEGORIES
CATEGORIES ==
    <<"groceries", "dining", "transport", "subscriptions", "utilities", "shopping",
      "entertainment", "health", "rent", "income", "fees", "transfer", "other">>

\* x in CATEGORIES (a Python list)
InCategories(x) == \E k \in DOMAIN CATEGORIES : CATEGORIES[k] = x

\* _categorize_with_gemini's default batch_size
DefaultBatchSize == 50

\* a parsed row, before categorize gives it a Category
Parsed(r) == [r EXCEPT !.Category = None]

\* a statement with one row more than a batch holds, every description its own
BigDf ==
    [k \in 1..(DefaultBatchSize + 1) |->
        [Date |-> <<2024, 11, 15>>, Description |-> "M" \o ToString(k), Amount |-> -4567,
         Category |-> None]]

\* the DataFrames handed to categorize
CatDfPool ==
    { <<Parsed(R1)>>,
      <<Parsed(R3), Parsed(R1), Parsed(R3)>>,
      BigDf }

\* every merchant text of the inputs
Merchants == UNION {{df[k].Description : k \in DOMAIN df} : df \in CatDfPool}

\* [x] * n
Repeat(x, n) == [k \in 1..n |-> x]

\* The text of the external service's response, as json.loads reads it once
\* the code fences are stripped: kind "invalid" is no JSON document; "array",
\* "object" (items: its keys) and "string" (items: its characters) have a
\* length; "number" and "null" have none.  fenced: the text came wrapped in
\* ``` lines.  An array element that is not a string is None.
Doc(kind, items, fenced) == [kind |-> kind, items |-> items, fenced |-> fenced]

\* the exception an operation raises instead of returning
Raised(exc) == [raised |-> TRUE, exc |-> exc, value |-> <<>>]

Returned(v) == [raised |-> FALSE, exc |-> None, value |-> v]

\* lines 182-187: pad the short end with "other", cut the long end
Reconcile(categories, expected_count) ==
    IF Len(categories) < expected_count
    THEN categories \o Repeat("other", expected_count - Len(categories))
    ELSE SubSeq(categories, 1, expected_count)

\* a mutant of the vocabulary clamp: the label is kept as the service gave it
NoClamp(c) == c

\* line 189: c if c in CATEGORIES else 'other'
Clamp(c) == IF InCategories(c) THEN c ELSE "other"

\* _parse_llm_response.  Only json.JSONDecodeError is caught: len() of a
\* number or of null is a TypeError, a dict or a str has no extend
\* (AttributeError), a dict cannot be sliced (TypeError).
_parse_llm_response(response_text, expected_count) ==
    LET kind  == response_text.kind
        items == response_text.items
    IN  CASE kind = "invalid" -> Returned(Repeat("other", expected_count))
          [] kind \in {"number", "null"} -> Raised("TypeError")
          [] kind = "array" ->
                Returned([k \in 1..expected_count |->
                            Clamp(Reconcile(items, expected_count)[k])])
          [] kind = "object" ->
                IF Len(items) < expected_count THEN Raised("AttributeError")
                ELSE IF Len(items) > expected_count THEN Raised("TypeError")
                ELSE Returned([k \in 1..expected_count |-> Clamp(items[k])])
          [] kind = "string" ->
                IF Len(items) < expected_count THEN Raised("AttributeError")
                ELSE Returned([k \in 1..expected_count |->
                                  Clamp(SubSeq(items, 1, expected_count)[k])])

\* Series.unique(): the distinct values in order of first appearance
unique(seq) ==
    LET firsts == {k \in DOMAIN seq : \A j \in 1..(k - 1) : seq[j] # seq[k]}
        nth(i) == CHOOSE k \in firsts : Cardinality({j \in firsts : j <= k}) = i
    IN  [i \in 1..Cardinality(firsts) |-> seq[nth(i)]]

\* merchants[i:i + batch_size]
Slice(merchants, i, batch_size) ==
    SubSeq(merchants, i + 1,
           IF i + batch_size < Len(merchants) THEN i + batch_size ELSE Len(merchants))

\* the texts of a sequence
Texts(seq) == {seq[k] : k \in DOMAIN seq}

\* lines 132-133: cache[merchant] = category over zip(uncategorized, new_categories)
Merged(cache, uncategorized, new_categories) ==
    LET n == IF Len(uncategorized) < Len(new_categories)
             THEN Len(uncategorized) ELSE Len(new_categories)
        new == {uncategorized[k] : k \in 1..n}
        idx(m) == CHOOSE k \in 1..n :
                     uncategorized[k] = m /\ \A j \in (k + 1)..n : uncategorized[j] # m
    IN  [m \in DOMAIN cache \cup new |->
            IF m \in new THEN new_categories[idx(m)] ELSE cache[m]]

\* _save_category_cache: INSERT OR REPLACE of every item of the in-memory cache
Upserted(table, cache) ==
    [m \in DOMAIN table \cup DOMAIN cache |->
        IF m \in DOMAIN cache THEN cache[m] ELSE table[m]]

\* line 138: df['Category'] = df['Description'].map(cache).fillna('other')
MapCategories(df, cache) ==
    [k \in DOMAIN df |->
        [df[k] EXCEPT !.Category =
            IF df[k].Description \in DOMAIN cache THEN cache[df[k].Description] ELSE "other"]]

\* a mutant of line 126: every merchant of the DataFrame is classified anew
AllMerchants(unique_merchants, cache) == unique_merchants

\* line 126: [m for m in unique_merchants if m not in cache]
NotInCache(unique_merchants, cache) ==
    SelectSeq(unique_merchants, LAMBDA m : m \notin DOMAIN cache)

\* the frame of a categorize call
IdleCat ==
    [pc |-> "idle", df |-> <<>>, cache |-> <<>>, uncategorized |-> <<>>, i |-> 0,
     all_categories |-> <<>>, result |-> <<>>]

IdleParse == [pc |-> "idle", response_text |-> None, expected_count |-> 0, outcome |-> None]

IdleStmt == [pc |-> "idle", text |-> <<>>, outcome |-> None]

IdleSan == [text |-> <<>>, results |-> <<>>]

IdleDraft == [pc |-> "idle", df |-> <<>>, result |-> <<>>]

IdleTool == [pc |-> "idle", df |-> <<>>, name |-> None, args |-> None, outcome |-> None]

(***************************************************************************)
(* State.                                                                  *)
(***************************************************************************)
VARIABLES
    transactions,    \* table transactions: committed rows, in insertion order
    imported_files,  \* table imported_files: committed rows {id, filename, transaction_count}
    file_seq,        \* AUTOINCREMENT counter of imported_files (sqlite_sequence)
    db_writer,       \* the connection holding SQLite's write lock, or 0
    save,            \* per client: the frame of its save_transactions call
    calls,           \* save_transactions calls begun so far
    merchant_categories, \* table merchant_categories: merchant -> category
    sent,            \* the external service: per merchant text, the requests that held it
    cat,             \* per client: the frame of its categorize call
    cat_calls,       \* categorize calls begun so far
    parse,           \* a call of _parse_llm_response: its arguments and its outcome
    stmt,            \* a call of _parse_transactions: its text and its outcome
    san,             \* a description and what _sanitize_description made of it, pass after pass
    draft,           \* an upload: the parsed rows and what sanitize returned for them
    tool             \* a FinanceTools object: its DataFrame and the outcome of a tool call

ledger_vars == <<transactions, imported_files, file_seq, db_writer, save, calls>>

classifier_vars == <<merchant_categories, sent, cat, cat_calls>>

\* the calls of the pure functions
call_vars == <<parse, stmt, san, draft, tool>>

vars == <<transactions, imported_files, file_seq, db_writer, save, calls,
          merchant_categories, sent, cat, cat_calls, parse, stmt, san, draft, tool>>

IdleFrame ==
    [pc |-> "idle", df |-> <<>>, source_file |-> None, card_type |-> None, bank |-> None,
     i |-> 0, saved_count |-> 0, skipped_count |-> 0, pending |-> <<>>, result |-> None]

Init ==
    /\ transactions = <<>>
    /\ imported_files = {}
    /\ file_seq = 0
    /\ db_writer = 0
    /\ save = [p \in Procs |-> IdleFrame]
    /\ calls = 0
    /\ merchant_categories = <<>>
    /\ sent = [m \in Merchants |-> 0]
    /\ cat = [p \in Procs |-> IdleCat]
    /\ cat_calls = 0
    /\ parse = IdleParse
    /\ stmt = IdleStmt
    /\ san = IdleSan
    /\ draft = IdleDraft
    /\ tool = IdleTool

\* is_file_imported: SELECT 1 FROM imported_files WHERE filename = ?
is_file_imported(filename) == \E f \in imported_files : f.filename = filename

\* a mutant of the registry check: the file registry is never consulted
NeverShortCircuit(source_file) == FALSE

\* save_transactions, line 150: the short-circuit condition
ShortCircuit(source_file) == Truthy(source_file) /\ is_file_imported(source_file)

\* a mutant of the UNIQUE constraint: the column is not unique
NoUniqueConstraint(h, rows) == FALSE

\* txn_hash TEXT UNIQUE: whether inserting hash h among rows violates it
UniqueViolation(h, rows) == \E k \in DOMAIN rows : rows[k].txn_hash = h

\* the rows a connection sees: committed rows and its own uncommitted ones
Visible(p) == transactions \o save[p].pending

\* the row save_transactions inserts for DataFrame row r
LedgerRow(r, card_type, bank, source_file) ==
    LET date == strftime(r.Date)
    IN  [date |-> date, description |-> r.Description, amount |-> r.Amount,
         category |-> r.Category, card_type |-> card_type, bank |-> bank,
         txn_hash |-> _generate_txn_hash(date, r.Description, r.Amount),
         source_file |-> source_file]

\* lines 171-177: the INSERT went through
OnInserted(f, row) ==
    [f EXCEPT !.i = f.i + 1, !.saved_count = f.saved_count + 1,
              !.pending = Append(f.pending, row)]

\* a mutant of the except clause: the first duplicate ends the loop
StopAtDuplicate(f) == [f EXCEPT !.i = Len(f.df), !.skipped_count = f.skipped_count + 1]

\* a mutant of the except clause: the duplicate takes the place of the row
\* the call inserted before (INSERT OR REPLACE)
ReplaceOnDuplicate(f) ==
    LET row == LedgerRow(f.df[f.i + 1], f.card_type, f.bank, f.source_file)
    IN  [f EXCEPT !.i = f.i + 1, !.skipped_count = f.skipped_count + 1,
                  !.pending = [k \in DOMAIN f.pending |->
                                  IF f.pending[k].txn_hash = row.txn_hash THEN row
                                  ELSE f.pending[k]]]

\* lines 178-180: sqlite3.IntegrityError, a duplicate transaction (same hash)
OnIntegrityError(f) == [f EXCEPT !.i = f.i + 1, !.skipped_count = f.skipped_count + 1]

(***************************************************************************)
(* save_transactions, in the steps other connections can interleave with.  *)
(***************************************************************************)
\* lines 147-161: the call, the registry check, the short-circuit return
Called(p, df, source_file, card_type, bank) ==
    /\ save[p].pc \in {"idle", "returned"}
    /\ calls < MaxCalls
    /\ calls' = calls + 1
    /\ IF ShortCircuit(source_file)
       THEN save' = [save EXCEPT ![p] =
                [IdleFrame EXCEPT !.pc = "returned", !.df = df, !.source_file = source_file,
                     !.card_type = card_type, !.bank = bank,
                     !.result = [saved_count |-> 0, skipped_count |-> 0, already_imported |-> TRUE]]]
       ELSE save' = [save EXCEPT ![p] =
                [IdleFrame EXCEPT !.pc = "loop", !.df = df, !.source_file = source_file,
                     !.card_type = card_type, !.bank = bank]]
    /\ UNCHANGED <<transactions, imported_files, file_seq, db_writer>>

\* save_transactions called on a DataFrame of the caller's own
SaveBegin(p, df, source_file, card_type, bank) ==
    /\ Called(p, df, source_file, card_type, bank)
    /\ UNCHANGED <<classifier_vars, call_vars>>

\* lines 163-180: one iteration of the row loop.  The first INSERT of the
\* connection takes SQLite's write lock, which is held until the commit; a
\* connection that finds it taken waits (busy timeout) for the holder.
SaveInsert(p) ==
    /\ save[p].pc = "loop"
    /\ save[p].i < Len(save[p].df)
    /\ db_writer \in {0, p}
    /\ db_writer' = p
    /\ LET f   == save[p]
           row == LedgerRow(f.df[f.i + 1], f.card_type, f.bank, f.source_file)
       IN  IF UniqueViolation(row.txn_hash, Visible(p))
           THEN save' = [save EXCEPT ![p] = OnIntegrityError(f)]
           ELSE save' = [save EXCEPT ![p] = OnInserted(f, row)]
    /\ UNCHANGED <<transactions, imported_files, file_seq, calls>>
    /\ UNCHANGED <<classifier_vars, call_vars>>

\* a mutant of the registry upsert: the count is taken before the loop ran
UpsertFileZero(files, id, filename, count) ==
    {f \in files : f.filename # filename}
        \cup {[id |-> id, filename |-> filename, transaction_count |-> 0]}

\* INSERT OR REPLACE INTO imported_files: a row with the same filename is
\* deleted, and the new row takes the next AUTOINCREMENT id
UpsertFile(files, id, filename, count) ==
    {f \in files : f.filename # filename}
        \cup {[id |-> id, filename |-> filename, transaction_count |-> count]}

\* lines 182-196: the registry upsert (a write: it needs the write lock too),
\* the commit, which releases the lock if this connection holds it, and the
\* return
SaveFinish(p) ==
    /\ save[p].pc = "loop"
    /\ save[p].i = Len(save[p].df)
    /\ LET f == save[p]
       IN  /\ IF Truthy(f.source_file)
              THEN /\ db_writer \in {0, p}
                   /\ file_seq' = file_seq + 1
                   /\ imported_files' =
                        UpsertFile(imported_files, file_seq + 1, f.source_file, f.saved_count)
              ELSE /\ UNCHANGED <<file_seq, imported_files>>
           /\ transactions' = transactions \o f.pending
           /\ db_writer' = IF db_writer = p \/ Truthy(f.source_file) THEN 0 ELSE db_writer
           /\ save' = [save EXCEPT ![p].pc = "returned", ![p].pending = <<>>,
                          ![p].result = [saved_count |-> f.saved_count,
                                         skipped_count |-> f.skipped_count,
                                         already_imported |-> FALSE]]
    /\ UNCHANGED <<calls, classifier_vars, call_vars>>

Next ==
    \E p \in Procs :
        \/ \E df \in DfPool, sf \in FilePool :
              SaveBegin(p, df, sf, Client(p)[1], Client(p)[2])
        \/ SaveInsert(p)
        \/ SaveFinish(p)

Spec == Init /\ [][Next]_vars

\* no save_transactions call is in progress
Quiet == \A q \in Procs : save[q].pc # "loop"

\* the same calls, made one after the other
NextSeq ==
    \E p \in Procs :
        \/ \E df \in DfPool, sf \in FilePool :
              Quiet /\ SaveBegin(p, df, sf, Client(p)[1], Client(p)[2])
        \/ SaveInsert(p)
        \/ SaveFinish(p)

SpecSeq == Init /\ [][NextSeq]_vars

(***************************************************************************)
(* categorize, and the import that saves what it returns.                  *)
(***************************************************************************)
\* what model.generate_content may answer to a batch of n merchants; kind
\* "error": the call (or response.text) raises and there is no text
ResponsePool(n) ==
    { Doc("error", <<>>, FALSE),
      Doc("invalid", <<>>, FALSE),
      Doc("null", <<>>, FALSE),
      Doc("object", <<"categories">>, FALSE),
      Doc("array", Repeat("dining", n), TRUE),
      Doc("array", Repeat("Food & Drink", n), FALSE),
      Doc("array", Repeat("groceries", n - 1), FALSE),
      Doc("array", Repeat("rent", n + 1), FALSE) }

\* lines 117-126, and 138-140 when nothing is left to classify
CatBegin(p, df) ==
    /\ cat[p].pc # "gemini"
    /\ cat_calls < MaxCatCalls
    /\ cat_calls' = cat_calls + 1
    /\ LET unique_merchants == unique([k \in DOMAIN df |-> df[k].Description])
           cache == merchant_categories
           uncategorized == NotInCache(unique_merchants, cache)
       IN  IF uncategorized = <<>>
           THEN cat' = [cat EXCEPT ![p] =
                    [IdleCat EXCEPT !.pc = "returned", !.df = df, !.cache = cache,
                                    !.result = MapCategories(df, cache)]]
           ELSE cat' = [cat EXCEPT ![p] =
                    [IdleCat EXCEPT !.pc = "gemini", !.df = df, !.cache = cache,
                                    !.uncategorized = uncategorized]]
    /\ UNCHANGED <<merchant_categories, sent, ledger_vars, call_vars>>

\* the batch _categorize_with_gemini is about to send
NextBatch(f, batch_size) == Slice(f.uncategorized, f.i, batch_size)

\* _categorize_with_gemini, lines 150-167: one batch -- the request, the
\* response and its parsing.  An exception of the call or of the parsing
\* leaves _categorize_with_gemini and categorize.
GeminiBatch(p, batch_size, response) ==
    /\ cat[p].pc = "gemini"
    /\ cat[p].i < Len(cat[p].uncategorized)
    /\ LET f     == cat[p]
           batch == NextBatch(f, batch_size)
           got   == IF response.kind = "error" THEN Raised("Exception")
                    ELSE _parse_llm_response(response, Len(batch))
       IN  /\ sent' = [m \in Merchants |->
                          IF m \in Texts(batch) THEN sent[m] + 1 ELSE sent[m]]
           /\ IF got.raised
              THEN cat' = [cat EXCEPT ![p].pc = "raised"]
              ELSE cat' = [cat EXCEPT ![p].i = f.i + batch_size,
                                      ![p].all_categories = f.all_categories \o got.value]
    /\ UNCHANGED <<merchant_categories, cat_calls, ledger_vars, call_vars>>

\* categorize, lines 130-140: every batch is answered
CatFinish(p) ==
    /\ cat[p].pc = "gemini"
    /\ cat[p].i >= Len(cat[p].uncategorized)
    /\ LET f     == cat[p]
           cache == Merged(f.cache, f.uncategorized, f.all_categories)
       IN  /\ merchant_categories' = Upserted(merchant_categories, cache)
           /\ cat' = [cat EXCEPT ![p].pc = "returned", ![p].cache = cache,
                                 ![p].result = MapCategories(f.df, cache)]
    /\ UNCHANGED <<sent, cat_calls, ledger_vars, call_vars>>

\* no call of any client is in progress
QuietAll == \A q \in Procs : save[q].pc # "loop" /\ cat[q].pc # "gemini"

\* app.py, lines 235-239: save_transactions called on the DataFrame categorize
\* returned
SaveCategorized(p, source_file) ==
    /\ cat[p].pc = "returned"
    /\ Called(p, cat[p].result, source_file, Client(p)[1], Client(p)[2])
    /\ cat' = [cat EXCEPT ![p] = IdleCat]
    /\ UNCHANGED <<merchant_categories, sent, cat_calls, call_vars>>

\* the client whose imports SpecImport follows
Importer == 1

\* the names its statements are saved under
ImportFilePool == {None, "a.pdf"}

\* imports made one after the other: categorize, then save_transactions on
\* what it returned
NextImport ==
    \/ \E df \in CatDfPool : QuietAll /\ CatBegin(Importer, df)
    \/ \E response \in ResponsePool(Len(NextBatch(cat[Importer], DefaultBatchSize))) :
          GeminiBatch(Importer, DefaultBatchSize, response)
    \/ CatFinish(Importer)
    \/ \E sf \in ImportFilePool : QuietAll /\ SaveCategorized(Importer, sf)
    \/ SaveInsert(Importer)
    \/ SaveFinish(Importer)

SpecImport == Init /\ [][NextImport]_vars

(***************************************************************************)
(* categorize calls of both clients at once: each loads the cache, has its *)
(* uncached texts classified and writes its whole in-memory cache back.    *)
(***************************************************************************)
NextCat ==
    \E p \in Procs :
        \/ \E df \in CatDfPool : CatBegin(p, df)
        \/ \E response \in ResponsePool(Len(NextBatch(cat[p], DefaultBatchSize))) :
              GeminiBatch(p, DefaultBatchSize, response)
        \/ CatFinish(p)

SpecCat == Init /\ [][NextCat]_vars

(***************************************************************************)
(* _parse_llm_response on its own: every response text of ParseDocs with   *)
(* every expected_count up to MaxBatch.                                    *)
(***************************************************************************)
\* what a JSON array of the response may hold: a label of the vocabulary, a
\* label outside it, an element that is no string
ElementPool == {"dining", "Food & Drink", None}

RECURSIVE SeqsUpTo(_, _)
\* all sequences over S of length 0..n
SeqsUpTo(S, n) ==
    IF n = 0 THEN {<<>>}
    ELSE LET shorter == SeqsUpTo(S, n - 1)
         IN  shorter \cup {Append(t, x) : t \in {u \in shorter : Len(u) = n - 1}, x \in S}

ParseDocs ==
    {Doc("invalid", <<>>, fenced) : fenced \in BOOLEAN}
        \cup {Doc("number", <<>>, FALSE), Doc("null", <<>>, FALSE)}
        \cup {Doc("array", items, fenced) :
                 items \in SeqsUpTo(ElementPool, MaxBatch + 1), fenced \in BOOLEAN}
        \cup {Doc("object", keys, FALSE) : keys \in {<<>>, <<"dining">>, <<"a", "b", "c">>}}
        \cup {Doc("string", chars, FALSE) : chars \in {<<>>, <<"r", "e", "n", "t">>}}

InitParse ==
    /\ transactions = <<>>
    /\ imported_files = {}
    /\ file_seq = 0
    /\ db_writer = 0
    /\ save = [p \in Procs |-> IdleFrame]
    /\ calls = 0
    /\ merchant_categories = <<>>
    /\ sent = [m \in Merchants |-> 0]
    /\ cat = [p \in Procs |-> IdleCat]
    /\ cat_calls = 0
    /\ parse \in {[IdleParse EXCEPT !.pc = "called", !.response_text = d, !.expected_count = n] :
                    d \in ParseDocs, n \in 0..MaxBatch}
    /\ stmt = IdleStmt
    /\ san = IdleSan
    /\ draft = IdleDraft
    /\ tool = IdleTool

\* the call runs: it returns a list or raises
ParseReturn ==
    /\ parse.pc = "called"
    /\ parse' = [parse EXCEPT !.pc = "done",
                     !.outcome = _parse_llm_response(parse.response_text, parse.expected_count)]
    /\ UNCHANGED <<ledger_vars, classifier_vars, stmt, san, draft, tool>>

SpecParse == InitParse /\ [][ParseReturn]_vars

(***************************************************************************)
(* The statement parser (DataProcessing/parser.py), multi-section grammar. *)
(* A text is the sequence of its billing-range headers and its             *)
(* transaction-detail sections; the position of an item is its index.      *)
(***************************************************************************)
\* the items of the texts handed to _parse_transactions
MaxItems == 3

MonthNames ==
    <<"January", "February", "March", "April", "May", "June", "July", "August",
      "September", "October", "November", "December">>

\* MONTH_MAP: full English month name -> 1..12
MONTH_MAP ==
    [name \in {MonthNames[k] : k \in 1..12} |-> CHOOSE k \in 1..12 : MonthNames[k] = name]

\* a match of DATE_RANGE_PATTERN: "<word> D, YYYY through <word> D, YYYY"
Header(start_month_name, start_year, end_year) ==
    [kind |-> "header", start_month_name |-> start_month_name,
     start_year |-> start_year, end_year |-> end_year]

\* a match of TRANSACTION_SECTION_PATTERN: its lines
Section(lines) == [kind |-> "section", lines |-> lines]

\* a line that matches TRANSACTION_LINE_PATTERN: MM/DD description amount balance
TxLine(month, day, description) ==
    [matched |-> TRUE, month |-> month, day |-> day, description |-> description,
     amount |-> -100, balance |-> 25000]

\* a line that does not match it
JunkLine ==
    [matched |-> FALSE, month |-> 0, day |-> 0, description |-> "Page 2 of 4",
     amount |-> 0, balance |-> 0]

\* an optional value: Python's None, or a value
Nothing == [none |-> TRUE, value |-> <<>>]

Some(v) == [none |-> FALSE, value |-> v]

IsLeap(y) == (y % 4 = 0 /\ y % 100 # 0) \/ y % 400 = 0

DaysInMonth(y, m) ==
    CASE m = 2 -> (IF IsLeap(y) THEN 29 ELSE 28)
      [] m \in {4, 6, 9, 11} -> 30
      [] OTHER -> 31

\* datetime(year, month, day) does not raise ValueError
ValidDate(y, m, d) == y \in 1..9999 /\ m \in 1..12 /\ d \in 1..DaysInMonth(y, m)

\* a finite set of positions, in ascending order (re.finditer)
Ascending(S) ==
    [i \in 1..Cardinality(S) |-> CHOOSE k \in S : Cardinality({j \in S : j <= k}) = i]

\* lines 165-168: (m.start(), header) of every header of the text
date_ranges(text) ==
    LET at == Ascending({k \in DOMAIN text : text[k].kind = "header"})
    IN  [i \in DOMAIN at |-> <<at[i], text[at[i]]>>]

\* lines 171-174: (m.start(), lines) of every section of the text
transaction_sections(text) ==
    LET at == Ascending({k \in DOMAIN text : text[k].kind = "section"})
    IN  [i \in DOMAIN at |-> <<at[i], text[at[i]].lines>>]

\* a mutant of the backward loop: the first header not after pos
FirstDateRange(pos, ranges) ==
    LET hits == {i \in DOMAIN ranges : ranges[i][1] <= pos}
    IN  IF hits = {} THEN Nothing
        ELSE Some(ranges[CHOOSE i \in hits : \A j \in hits : i <= j][2])

\* _find_date_range_for_position: from the last range backwards, the first
\* whose position is <= pos
_find_date_range_for_position(pos, ranges) ==
    LET hits == {i \in DOMAIN ranges : ranges[i][1] <= pos}
    IN  IF hits = {} THEN Nothing
        ELSE Some(ranges[CHOOSE i \in hits : \A j \in hits : j <= i][2])

\* _extract_year_info: MONTH_MAP[start_month_name] is a KeyError for a word
\* that is no key of MONTH_MAP
_extract_year_info(header) ==
    IF header.start_month_name \in DOMAIN MONTH_MAP
    THEN Returned([start_year |-> header.start_year, end_year |-> header.end_year,
                   start_month |-> MONTH_MAP[header.start_month_name]])
    ELSE Raised("KeyError")

\* a mutant of line 261: month > start_month
YearOfStrict(year_info, month) ==
    IF year_info.start_year = year_info.end_year THEN year_info.start_year
    ELSE IF month > year_info.start_month THEN year_info.start_year
    ELSE year_info.end_year

\* lines 256-263
YearOf(year_info, month) ==
    IF year_info.start_year = year_info.end_year THEN year_info.start_year
    ELSE IF month >= year_info.start_month THEN year_info.start_year
    ELSE year_info.end_year

\* _parse_transaction_line: None when datetime() raises ValueError
_parse_transaction_line(line, year_info) ==
    LET year == YearOf(year_info, line.month)
    IN  IF ValidDate(year, line.month, line.day)
        THEN Some([Date |-> <<year, line.month, line.day>>, Description |-> line.description,
                   Amount |-> line.amount, Balance |-> line.balance])
        ELSE Nothing

\* a mutant of the loop: it ends at the first line whose date is invalid
StopAtInvalidDate(lines, year_info) ==
    LET bad  == {k \in DOMAIN lines :
                   lines[k].matched /\ _parse_transaction_line(lines[k], year_info).none}
        kept == Ascending({k \in DOMAIN lines :
                   /\ lines[k].matched
                   /\ \A j \in bad : k < j})
    IN  [i \in DOMAIN kept |-> _parse_transaction_line(lines[kept[i]], year_info).value]

\* _parse_section_lines: the transactions of the lines that match and whose
\* date is valid, in the order of the lines
_parse_section_lines(lines, year_info) ==
    LET kept == Ascending({k \in DOMAIN lines :
                   /\ lines[k].matched
                   /\ ~_parse_transaction_line(lines[k], year_info).none})
    IN  [i \in DOMAIN kept |-> _parse_transaction_line(lines[kept[i]], year_info).value]

RECURSIVE Flatten(_)
\* transactions.extend(...) over a sequence of lists
Flatten(seqs) == IF seqs = <<>> THEN <<>> ELSE Head(seqs) \o Flatten(Tail(seqs))

\* lines 178-182: per section, the header _find_date_range_for_position gives
UsedHeaders(text) ==
    LET sections == transaction_sections(text)
    IN  [i \in DOMAIN sections |->
            _find_date_range_for_position(sections[i][1], date_ranges(text))]

\* _parse_transactions: sections without a header are passed over; a
\* KeyError of _extract_year_info leaves the function
_parse_transactions(text) ==
    LET sections == transaction_sections(text)
        used     == UsedHeaders(text)
    IN  IF \E i \in DOMAIN sections :
              ~used[i].none /\ _extract_year_info(used[i].value).raised
        THEN Raised("KeyError")
        ELSE Returned(Flatten(
                [i \in DOMAIN sections |->
                    IF used[i].none THEN <<>>
                    ELSE _parse_section_lines(sections[i][2],
                                              _extract_year_info(used[i].value).value)]))

\* the headers and sections the texts are made of
ItemPool ==
    { Header("December", 2024, 2025),
      Header("January", 2023, 2023),
      Header("February", 2024, 2024),
      Header("Dec", 2024, 2025),
      Section(<<TxLine(12, 20, "A"), TxLine(2, 30, "B"), TxLine(1, 3, "C")>>),
      Section(<<TxLine(2, 29, "D"), JunkLine, TxLine(2, 28, "E")>>),
      Section(<<>>) }

\* _parse_transactions is called on a text of up to MaxItems items
InitStatement ==
    /\ transactions = <<>>
    /\ imported_files = {}
    /\ file_seq = 0
    /\ db_writer = 0
    /\ save = [p \in Procs |-> IdleFrame]
    /\ calls = 0
    /\ merchant_categories = <<>>
    /\ sent = [m \in Merchants |-> 0]
    /\ cat = [p \in Procs |-> IdleCat]
    /\ cat_calls = 0
    /\ parse = IdleParse
    /\ stmt \in {[IdleStmt EXCEPT !.pc = "called", !.text = t] : t \in SeqsUpTo(ItemPool, MaxItems)}
    /\ san = IdleSan
    /\ draft = IdleDraft
    /\ tool = IdleTool

\* the years of the headers and the days of the lines of SpecYear
YearPool == {2024, 2025}

DayPool == {1, 29, 31}

\* _parse_transactions is called on one header and one section of one line:
\* every start month, every line month
InitYear ==
    /\ transactions = <<>>
    /\ imported_files = {}
    /\ file_seq = 0
    /\ db_writer = 0
    /\ save = [p \in Procs |-> IdleFrame]
    /\ calls = 0
    /\ merchant_categories = <<>>
    /\ sent = [m \in Merchants |-> 0]
    /\ cat = [p \in Procs |-> IdleCat]
    /\ cat_calls = 0
    /\ parse = IdleParse
    /\ stmt \in {[IdleStmt EXCEPT !.pc = "called",
                     !.text = <<Header(MonthNames[sm], sy, ey), Section(<<TxLine(m, d, "A")>>)>>] :
                   sm \in 1..12, sy \in YearPool, ey \in YearPool, m \in 1..12, d \in DayPool}
    /\ san = IdleSan
    /\ draft = IdleDraft
    /\ tool = IdleTool

\* the call runs: it returns the transactions or raises
StatementReturn ==
    /\ stmt.pc = "called"
    /\ stmt' = [stmt EXCEPT !.pc = "done", !.outcome = _parse_transactions(stmt.text)]
    /\ UNCHANGED <<ledger_vars, classifier_vars, parse, san, draft, tool>>

SpecStatement == InitStatement /\ [][StatementReturn]_vars

SpecYear == InitYear /\ [][StatementReturn]_vars

(***************************************************************************)
(* The credit and debit dialects.  parser.py has the multi-section grammar *)
(* only; app.py calls parse_single_statement(path, statement_type).  The   *)
(* year inference of the two dialects is written from the specification.   *)
(***************************************************************************)
\* the single header date of a statement: "Statement Date: MM/DD/YY"
StatementDate(year, month, day) ==
    [kind |-> "statement_date", year |-> year, month |-> month, day |-> day]

\* a mutant: a line of the header's own month goes to the prior year too
DialectYearAtLeast(header, month) ==
    IF month >= header.month THEN header.year - 1 ELSE header.year

\* the year of a line: the header year minus one if the line's month is
\* greater than the header's month, otherwise the header year
DialectYear(header, month) ==
    IF month > header.month THEN header.year - 1 ELSE header.year

\* the transactions of the lines under the header; a line whose date is no
\* calendar date is skipped
parse_dialect(text) ==
    LET header == text[1]
        lines  == text[2].lines
        kept   == Ascending({k \in DOMAIN lines :
                      /\ lines[k].matched
                      /\ ValidDate(DialectYear(header, lines[k].month),
                                   lines[k].month, lines[k].day)})
    IN  Returned([i \in DOMAIN kept |->
            [Date |-> <<DialectYear(header, lines[kept[i]].month),
                        lines[kept[i]].month, lines[kept[i]].day>>,
             Description |-> lines[kept[i]].description,
             Amount |-> lines[kept[i]].amount]])

DialectDayPool == {1, 28, 31}

\* a statement of one line: every header month, every line month
InitDialect ==
    /\ transactions = <<>>
    /\ imported_files = {}
    /\ file_seq = 0
    /\ db_writer = 0
    /\ save = [p \in Procs |-> IdleFrame]
    /\ calls = 0
    /\ merchant_categories = <<>>
    /\ sent = [m \in Merchants |-> 0]
    /\ cat = [p \in Procs |-> IdleCat]
    /\ cat_calls = 0
    /\ parse = IdleParse
    /\ stmt \in {[IdleStmt EXCEPT !.pc = "called",
                     !.text = <<StatementDate(hy, hm, 10), Section(<<TxLine(m, d, "SOME STORE")>>)>>] :
                   hy \in YearPool, hm \in 1..12, m \in 1..12, d \in DialectDayPool}
    /\ san = IdleSan
    /\ draft = IdleDraft
    /\ tool = IdleTool

DialectReturn ==
    /\ stmt.pc = "called"
    /\ stmt' = [stmt EXCEPT !.pc = "done", !.outcome = parse_dialect(stmt.text)]
    /\ UNCHANGED <<ledger_vars, classifier_vars, parse, san, draft, tool>>

SpecDialect == InitDialect /\ [][DialectReturn]_vars

(***************************************************************************)
(* The sanitizer (DataProcessing/preprocess.py).  A description is the     *)
(* sequence of its characters: the digit "5", the blank " ", and, as one   *)
(* element each, a replacement tag ("[CARD]", ...) or a word without       *)
(* digits ("AMAZON.COM").  A tag begins and ends with a bracket, so no     *)
(* pattern matches into it; a word stands apart from digits by a blank.    *)
(* Of SANITIZE_PATTERNS, the nine that need a keyword or a letter before   *)
(* the digits match nothing in such a text; the four digit patterns do.    *)
(***************************************************************************)
\* the chunks a description of SpecSanitize is put together from
MaxGroups == 4

\* the words of the descriptions
Words == {"AMAZON.COM", "PAY|ROLL"}

\* \w at the edge of an element
IsWordChar(c) == c = "5" \/ c \in Words

IsWordAt(s, i) == i \in DOMAIN s /\ IsWordChar(s[i])

\* \d
IsDigitAt(s, i) == i \in DOMAIN s /\ s[i] = "5"

\* \b between s[i - 1] and s[i]
Boundary(s, i) == IsWordAt(s, i - 1) # IsWordAt(s, i)

\* \d{n} from position i
DigitsAt(s, i, n) == \A k \in i..(i + n - 1) : IsDigitAt(s, k)

\* [-\s]? and [-.\s]? at position i: the characters it takes
SepAt(s, i) == IF i \in DOMAIN s /\ s[i] = " " THEN 1 ELSE 0

RECURSIVE GroupsAt(_, _, _)
\* \d{g1}[-\s]?\d{g2}[-\s]?... from position i: the position after the
\* match, 0 when there is none
GroupsAt(s, i, groups) ==
    IF ~DigitsAt(s, i, Head(groups)) THEN 0
    ELSE LET j == i + Head(groups)
         IN  IF Tail(groups) = <<>> THEN j
             ELSE GroupsAt(s, j + SepAt(s, j), Tail(groups))

\* the digit patterns of SANITIZE_PATTERNS, in the order of the list:
\* lead_b: the pattern begins with \b; lead_sep: it begins with an optional
\* separator; more: the last group is \d{n,}
SANITIZE_PATTERNS ==
    << [groups |-> <<4, 4, 4, 4>>, lead_b |-> TRUE, lead_sep |-> FALSE, more |-> FALSE,
        tag |-> "[CARD]"],
       [groups |-> <<3, 3, 4>>, lead_b |-> FALSE, lead_sep |-> TRUE, more |-> FALSE,
        tag |-> "[PHONE]"],
       [groups |-> <<3, 2, 4>>, lead_b |-> TRUE, lead_sep |-> FALSE, more |-> FALSE,
        tag |-> "[SSN]"],
       [groups |-> <<8>>, lead_b |-> TRUE, lead_sep |-> FALSE, more |-> TRUE,
        tag |-> "[ID]"] >>

Tags == {SANITIZE_PATTERNS[k].tag : k \in DOMAIN SANITIZE_PATTERNS}

\* the end of the digit run that holds position i - 1
RunEnd(s, i) ==
    CHOOSE e \in i..(Len(s) + 1) : DigitsAt(s, i, e - i) /\ ~IsDigitAt(s, e)

\* a match of the pattern that begins at position i: the position after it,
\* 0 when there is none
MatchAt(s, i, pattern) ==
    LET from == IF pattern.lead_sep THEN i + SepAt(s, i) ELSE i
        e    == GroupsAt(s, from, pattern.groups)
        end  == IF e # 0 /\ pattern.more THEN RunEnd(s, e) ELSE e
    IN  IF (pattern.lead_b => Boundary(s, i)) /\ end # 0 /\ Boundary(s, end)
        THEN end ELSE 0

RECURSIVE SubFrom(_, _, _)
\* re.sub from position i on: the leftmost match is replaced, the search
\* goes on after it
SubFrom(s, i, pattern) ==
    IF i > Len(s) THEN <<>>
    ELSE LET e == MatchAt(s, i, pattern)
         IN  IF e # 0 THEN <<pattern.tag>> \o SubFrom(s, e, pattern)
             ELSE <<s[i]>> \o SubFrom(s, i + 1, pattern)

RECURSIVE SubAll(_, _)
\* lines 78-84: the patterns applied one after the other
SubAll(s, k) ==
    IF k > Len(SANITIZE_PATTERNS) THEN s
    ELSE SubAll(SubFrom(s, 1, SANITIZE_PATTERNS[k]), k + 1)

\* line 86: re.sub(r'\s+', ' ', result).strip()
CollapseSpaces(s) ==
    LET keep == {i \in DOMAIN s :
                   \/ s[i] # " "
                   \/ /\ i > 1 /\ s[i - 1] # " "
                      /\ \E j \in (i + 1)..Len(s) : s[j] # " "}
        at   == Ascending(keep)
    IN  [k \in DOMAIN at |-> s[at[k]]]

\* the first position from i on that holds no blank
PastSpaces(s, i) ==
    CHOOSE j \in i..(Len(s) + 1) :
        /\ \A k \in i..(j - 1) : s[k] = " "
        /\ j \in DOMAIN s => s[j] # " "

RECURSIVE PastRepeats(_, _, _)
\* (?:\s*\1)+ from position i on: the position after the last repeat
PastRepeats(s, i, t) ==
    LET j == PastSpaces(s, i)
    IN  IF j \in DOMAIN s /\ s[j] = t THEN PastRepeats(s, j + 1, t) ELSE i

RECURSIVE CollapseTagsFrom(_, _)
\* line 87: re.sub(r'(\[\w+\])(?:\s*\1)+', r'\1', result)
CollapseTagsFrom(s, i) ==
    IF i > Len(s) THEN <<>>
    ELSE IF s[i] \in Tags
         THEN <<s[i]>> \o CollapseTagsFrom(s, PastRepeats(s, i + 1, s[i]))
         ELSE <<s[i]>> \o CollapseTagsFrom(s, i + 1)

\* _sanitize_description
_sanitize_description(text) == CollapseTagsFrom(CollapseSpaces(SubAll(text, 1)), 1)

\* n digits
Digits(n) == [k \in 1..n |-> "5"]

\* what a description is put together from: digit groups, a tag, nothing
ChunkPool == {Digits(2), Digits(3), Digits(4), <<"[ID]">>, <<>>}

\* what stands between two chunks: nothing, one blank, two blanks
SepPool == {<<>>, <<" ">>, <<" ", " ">>}

RECURSIVE TextsOf(_)
\* the descriptions of up to n chunks
TextsOf(n) ==
    IF n = 1 THEN ChunkPool
    ELSE LET shorter == TextsOf(n - 1)
         IN  shorter \cup {t \o sep \o c : t \in shorter, sep \in SepPool, c \in ChunkPool}

InitSanitize ==
    /\ transactions = <<>>
    /\ imported_files = {}
    /\ file_seq = 0
    /\ db_writer = 0
    /\ save = [p \in Procs |-> IdleFrame]
    /\ calls = 0
    /\ merchant_categories = <<>>
    /\ sent = [m \in Merchants |-> 0]
    /\ cat = [p \in Procs |-> IdleCat]
    /\ cat_calls = 0
    /\ parse = IdleParse
    /\ stmt = IdleStmt
    /\ san \in {[IdleSan EXCEPT !.text = t] : t \in TextsOf(MaxGroups)}
    /\ draft = IdleDraft
    /\ tool = IdleTool

\* _sanitize_description is applied to the description, then to its result
SanitizeAgain ==
    /\ Len(san.results) < 2
    /\ san' = [san EXCEPT !.results =
                  Append(san.results,
                         _sanitize_description(IF san.results = <<>> THEN san.text
                                               ELSE san.results[Len(san.results)]))]
    /\ UNCHANGED <<ledger_vars, classifier_vars, parse, stmt, draft, tool>>

SpecSanitize == InitSanitize /\ [][SanitizeAgain]_vars

(***************************************************************************)
(* An upload (app.py, process_upload): the parsed rows are sanitized,      *)
(* categorized and saved.                                                  *)
(***************************************************************************)
RECURSIVE Join(_)
\* the text of a sequence of characters
Join(chars) == IF chars = <<>> THEN "" ELSE Head(chars) \o Join(Tail(chars))

\* a row as the parser returns it: the description as read from the
\* statement, the running balance in cents
DraftRow(r, description, balance) ==
    [Date |-> r.Date, Description |-> description, Amount |-> r.Amount,
     Category |-> None, Balance |-> balance]

\* a mutant of lines 65-66: the Balance column stays
SanitizeKeepBalance(df) ==
    [k \in DOMAIN df |->
        [df[k] EXCEPT !.Description = Join(_sanitize_description(df[k].Description))]]

\* sanitize: every Description goes through _sanitize_description, the
\* Balance column is dropped when there is one
sanitize(df) ==
    [k \in DOMAIN df |->
        [f \in DOMAIN df[k] \ {"Balance"} |->
            IF f = "Description" THEN Join(_sanitize_description(df[k].Description))
            ELSE df[k][f]]]

\* the DataFrames parse_single_statement hands to sanitize; the last has no
\* Balance column
DraftPool ==
    { <<DraftRow(R1, <<" ", "AMAZON.COM", " ", " ">>, 25000)>>,
      <<DraftRow(R3, <<"PAY|ROLL">>, 45000), DraftRow(R1, <<"AMAZON.COM">>, 40433),
        DraftRow(R3, <<"PAY|ROLL">>, 60433)>>,
      <<[Date |-> R4.Date, Description |-> <<"AMAZON.COM", " ">>, Amount |-> R4.Amount,
         Category |-> None]>> }

InitUpload ==
    /\ transactions = <<>>
    /\ imported_files = {}
    /\ file_seq = 0
    /\ db_writer = 0
    /\ save = [p \in Procs |-> IdleFrame]
    /\ calls = 0
    /\ merchant_categories = <<>>
    /\ sent = [m \in Merchants |-> 0]
    /\ cat = [p \in Procs |-> IdleCat]
    /\ cat_calls = 0
    /\ parse = IdleParse
    /\ stmt = IdleStmt
    /\ san = IdleSan
    /\ draft \in {[IdleDraft EXCEPT !.pc = "parsed", !.df = df] : df \in DraftPool}
    /\ tool = IdleTool

\* app.py, line 231: df = sanitize(df)
SanitizeDraft ==
    /\ draft.pc = "parsed"
    /\ draft' = [draft EXCEPT !.pc = "sanitized", !.result = sanitize(draft.df)]
    /\ UNCHANGED <<ledger_vars, classifier_vars, parse, stmt, san, tool>>

\* app.py, line 235: df = categorize(df)
CategorizeDraft ==
    /\ draft.pc = "sanitized"
    /\ QuietAll
    /\ CatBegin(Importer, draft.result)

\* uploads of one statement, one after the other
NextUpload ==
    \/ SanitizeDraft
    \/ CategorizeDraft
    \/ \E response \in ResponsePool(Len(NextBatch(cat[Importer], DefaultBatchSize))) :
          GeminiBatch(Importer, DefaultBatchSize, response)
    \/ CatFinish(Importer)
    \/ \E sf \in ImportFilePool : QuietAll /\ SaveCategorized(Importer, sf)
    \/ SaveInsert(Importer)
    \/ SaveFinish(Importer)

SpecUpload == InitUpload /\ [][NextUpload]_vars

(***************************************************************************)
(* The agent's tools (Agent/tools.py): compare_periods and                 *)
(* detect_anomalies on the DataFrame load_transactions gave the            *)
(* FinanceTools object.  Dates are numbers yyyymmdd, amounts cents,        *)
(* percentages tenths of a percent.                                        *)
(***************************************************************************)
\* a row of the loaded DataFrame
ToolRow(date, description, amount, category) ==
    [date |-> date, description |-> description, amount |-> amount, category |-> category]

\* the rows the loaded DataFrames are taken from, in the order of the table
ToolRows ==
    << ToolRow(20240105, "CAFE", -10, "dining"),
       ToolRow(20240110, "REFUND", 10, "income"),
       ToolRow(20240120, "BISTRO", -12, "dining"),
       ToolRow(20240210, "DINER", -30, "dining"),
       ToolRow(20240215, "LAPTOP", -500, "shopping"),
       ToolRow(20240220, "PAYROLL", 2000, "income"),
       ToolRow(20240225, "BAR", -11, "dining") >>

\* the DataFrames: every selection of rows of ToolRows, the empty one too
ToolDfPool ==
    {[i \in 1..Cardinality(S) |-> ToolRows[Ascending(S)[i]]] : S \in SUBSET DOMAIN ToolRows}

\* the periods asked for: January, February, March, the first quarter
PeriodPool == {<<20240101, 20240131>>, <<20240201, 20240229>>, <<20240301, 20240331>>,
               <<20240101, 20240331>>}

\* df[(df['date'] >= start) & (df['date'] <= end)]
Between(df, start, end) == SelectSeq(df, LAMBDA r : r.date >= start /\ r.date <= end)

RECURSIVE SumAmount(_)
\* round(rows['amount'].sum(), 2)
SumAmount(rows) == IF rows = <<>> THEN 0 ELSE Head(rows).amount + SumAmount(Tail(rows))

Abs(x) == IF x < 0 THEN -x ELSE x

\* a / b for b > 0, rounded to the nearest integer, a tie to the even one
RoundDiv(a, b) ==
    LET q == a \div b
        r == a - q * b
    IN  IF 2 * r < b THEN q
        ELSE IF 2 * r > b THEN q + 1
        ELSE IF q % 2 = 0 THEN q ELSE q + 1

\* a mutant of line 567: the division is by p1_total, not by its absolute value
PercentOfSigned(diff, p1_total) ==
    IF p1_total # 0
    THEN (IF p1_total > 0 THEN RoundDiv(diff * 1000, p1_total)
          ELSE RoundDiv(-diff * 1000, -p1_total))
    ELSE 0

\* line 567: round(diff / abs(p1_total) * 100, 1) if p1_total != 0 else 0
PercentChange(diff, p1_total) ==
    IF p1_total # 0 THEN RoundDiv(diff * 1000, Abs(p1_total)) ELSE 0

\* groupby('category')['amount'].sum().round(2).to_dict()
ByCategory(rows) ==
    [c \in {rows[k].category : k \in DOMAIN rows} |->
        SumAmount(SelectSeq(rows, LAMBDA r : r.category = c))]

\* compare_periods
compare_periods(df, period1, period2, group_by) ==
    LET p1 == Between(df, period1[1], period1[2])
        p2 == Between(df, period2[1], period2[2])
    IN  IF group_by = "total"
        THEN LET p1_total == SumAmount(p1)
                 p2_total == SumAmount(p2)
                 diff     == p2_total - p1_total
             IN  [period1 |-> [dates |-> period1, total |-> p1_total],
                  period2 |-> [dates |-> period2, total |-> p2_total],
                  difference |-> diff,
                  percent_change |-> PercentChange(diff, p1_total)]
        ELSE [period1 |-> [dates |-> period1, by_category |-> ByCategory(p1)],
              period2 |-> [dates |-> period2, by_category |-> ByCategory(p2)]]

\* str.lower() on the category names in use
Lower(text) == IF text = "Dining" THEN "dining" ELSE text

\* a mutant of line 617: two expenses are taken to be enough
FewerThanTwo(expenses) == Len(expenses) < 2

\* line 617: len(expenses) < 3
TooFew(expenses) == Len(expenses) < 3

\* amount < mean - threshold * std (the sample standard deviation), in
\* whole numbers: with n expenses of sum S, S - n * amount > 0 and
\* (S - n * amount)^2 * (n - 1) > threshold^2 * sum of (n * x - S)^2
IsAnomaly(expenses, threshold, amount) ==
    LET n == Len(expenses)
        S == SumAmount(expenses)
        squares == SumAmount([k \in DOMAIN expenses |->
                       [amount |-> (n * expenses[k].amount - S) * (n * expenses[k].amount - S)]])
    IN  /\ S - n * amount > 0
        /\ (S - n * amount) * (S - n * amount) * (n - 1) > threshold * threshold * squares

\* sort_values('amount'): ascending; rows of equal amount in table order
SortByAmount(rows) ==
    LET before(j, k) == rows[j].amount < rows[k].amount
                           \/ (rows[j].amount = rows[k].amount /\ j < k)
        nth(i) == CHOOSE k \in DOMAIN rows :
                     Cardinality({j \in DOMAIN rows : before(j, k)}) = i - 1
    IN  [i \in DOMAIN rows |-> rows[nth(i)]]

\* detect_anomalies
detect_anomalies(df, category, threshold) ==
    LET data == IF Truthy(category)
                THEN SelectSeq(df, LAMBDA r : Lower(r.category) = Lower(category))
                ELSE df
        expenses == SelectSeq(data, LAMBDA r : r.amount < 0)
    IN  IF data = <<>>
        THEN [anomalies |-> <<>>, note |-> "No data to analyze"]
        ELSE IF TooFew(expenses)
        THEN [anomalies |-> <<>>, note |-> "Not enough transactions to detect anomalies"]
        ELSE LET anomalies == SortByAmount(SelectSeq(expenses,
                                  LAMBDA r : IsAnomaly(expenses, threshold, r.amount)))
             IN  [anomaly_count |-> Len(anomalies), threshold_used |-> threshold,
                  anomalies |-> anomalies]

\* FinanceTools(): self.df = load_transactions()
InitTools ==
    /\ transactions = <<>>
    /\ imported_files = {}
    /\ file_seq = 0
    /\ db_writer = 0
    /\ save = [p \in Procs |-> IdleFrame]
    /\ calls = 0
    /\ merchant_categories = <<>>
    /\ sent = [m \in Merchants |-> 0]
    /\ cat = [p \in Procs |-> IdleCat]
    /\ cat_calls = 0
    /\ parse = IdleParse
    /\ stmt = IdleStmt
    /\ san = IdleSan
    /\ draft = IdleDraft
    /\ tool \in {[IdleTool EXCEPT !.pc = "loaded", !.df = df] : df \in ToolDfPool}

\* execute('compare_periods', ...)
ComparePeriods(period1, period2, group_by) ==
    /\ tool.pc # "idle"
    /\ tool' = [tool EXCEPT !.pc = "done", !.name = "compare_periods",
                   !.args = [period1 |-> period1, period2 |-> period2, group_by |-> group_by],
                   !.outcome = compare_periods(tool.df, period1, period2, group_by)]
    /\ UNCHANGED <<ledger_vars, classifier_vars, parse, stmt, san, draft>>

\* execute('detect_anomalies', ...)
DetectAnomalies(category, threshold) ==
    /\ tool.pc # "idle"
    /\ tool' = [tool EXCEPT !.pc = "done", !.name = "detect_anomalies",
                   !.args = [category |-> category, threshold |-> threshold],
                   !.outcome = detect_anomalies(tool.df, category, threshold)]
    /\ UNCHANGED <<ledger_vars, classifier_vars, parse, stmt, san, draft>>

NextTools ==
    \/ \E period1 \in PeriodPool, period2 \in PeriodPool, group_by \in {"total", "category"} :
          ComparePeriods(period1, period2, group_by)
    \/ \E category \in {None, "dining", "Dining", "rent"}, threshold \in {1, 2} :
          DetectAnomalies(category, threshold)

SpecTools == InitTools /\ [][NextTools]_vars

(***************************************************************************)
(* The query engine on the stored ledger: FinanceTools built by            *)
(* load_transactions, its tools called through execute, and run_query.     *)
(***************************************************************************)
\* the columns of the transactions table (CREATE TABLE, database.py), which
\* are the columns of the DataFrame SELECT * gives
Columns ==
    {"id", "date", "description", "amount", "category", "card_type", "bank", "txn_hash",
     "source_file", "created_at"}

\* the dates of the rows the clients save
DatePool == {R1.Date, R3.Date}

\* pd.to_datetime on a '%Y-%m-%d' text: the date that formats to it, as the
\* number yyyymmdd
to_datetime(text) ==
    LET d == CHOOSE d \in DatePool : strftime(d) = text
    IN  d[1] * 10000 + d[2] * 100 + d[3]

\* dt.strftime('%Y-%m-%d') of a date yyyymmdd
DateText(n) == strftime(<<n \div 10000, (n \div 100) % 100, n % 100>>)

\* load_transactions: SELECT * FROM transactions, the date column converted;
\* of the columns the tools read, account_last4 is not in the table
load_transactions(db) ==
    [k \in DOMAIN db |->
        [date |-> to_datetime(db[k].date), description |-> db[k].description,
         amount |-> db[k].amount, category |-> db[k].category,
         card_type |-> db[k].card_type, bank |-> db[k].bank]]

\* a query text is the sequence of its characters
SelectAll ==
    <<"S", "E", "L", "E", "C", "T", " ", "*", " ", "F", "R", "O", "M", " ",
      "t", "r", "a", "n", "s", "a", "c", "t", "i", "o", "n", "s">>

DeleteAll ==
    <<"D", "E", "L", "E", "T", "E", " ", "F", "R", "O", "M", " ",
      "t", "r", "a", "n", "s", "a", "c", "t", "i", "o", "n", "s">>

SqlPool ==
    { SelectAll,
      <<" ", "\n", "s", "e", "L", "e", "c", "t">> \o SubSeq(SelectAll, 7, 26) \o <<" ">>,
      DeleteAll,
      <<" ">> \o DeleteAll,
      <<"d", "r", "o", "p", " ", "t", "a", "b", "l", "e", " ", "t">>,
      <<>>,
      <<"s", "e", "l", "e", "c", "t", "e", "d">>,
      <<"S", "E", "L", "E", "C">> }

\* str.lower() on a character
LowerChar(c) ==
    CASE c = "S" -> "s" [] c = "E" -> "e" [] c = "L" -> "l" [] c = "C" -> "c"
      [] c = "T" -> "t" [] c = "F" -> "f" [] c = "R" -> "r" [] c = "O" -> "o"
      [] c = "M" -> "m" [] c = "D" -> "d" [] OTHER -> c

LowerText(text) == [i \in DOMAIN text |-> LowerChar(text[i])]

IsSpace(c) == c \in {" ", "\n", "\t"}

\* str.strip()
strip(text) ==
    LET inked == {i \in DOMAIN text : ~IsSpace(text[i])}
    IN  IF inked = {} THEN <<>>
        ELSE SubSeq(text, CHOOSE i \in inked : \A j \in inked : i <= j,
                          CHOOSE i \in inked : \A j \in inked : j <= i)

\* str.startswith
startswith(text, prefix) ==
    Len(text) >= Len(prefix) /\ SubSeq(text, 1, Len(prefix)) = prefix

\* pd.read_sql(sql, conn) on the statements of SqlPool that reach it: the
\* rows of the table for the SELECT, DatabaseError for the text SQLite does
\* not parse
read_sql(sql, db) ==
    IF LowerText(strip(sql)) = LowerText(SelectAll)
    THEN Returned(db)
    ELSE Raised("DatabaseError")

\* lines 222-225: not sql.strip().lower().startswith("select")
NotSelect(sql) == ~startswith(LowerText(strip(sql)), LowerText(SubSeq(SelectAll, 1, 6)))

\* run_query
run_query(sql, db) ==
    IF NotSelect(sql) THEN Raised("ValueError") ELSE read_sql(sql, db)

\* FinanceTools.run_sql: every exception of run_query becomes a result
run_sql(query, db) ==
    LET result == run_query(query, db)
    IN  IF result.raised
        THEN Returned([error |-> result.exc])
        ELSE Returned([count |-> Len(result.value), results |-> result.value])

\* the value of a keyword argument, None when it is not passed
Arg(params, key) == IF key \in DOMAIN params THEN params[key] ELSE None

\* str.lower() on the names in use
LowerName(text) ==
    CASE text = "Shopping" -> "shopping" [] text = "Credit" -> "credit"
      [] text = "Chase" -> "chase" [] text = "CHASE" -> "chase" [] OTHER -> Lower(text)

\* str.contains(pattern, case=False, na=False): pattern is searched as a
\* regular expression, in which "." matches any character
contains(description, pattern) ==
    \/ pattern = "amazon" /\ description = "AMAZON.COM"
    \/ pattern = "pay" /\ description = "PAY|ROLL"
    \/ pattern = "."

\* the filters query_transactions and aggregate share (tools.py, lines
\* 356-363 and 368-373; 415-428): a filter on a column the DataFrame does
\* not have is not applied
Filtered(df, p) ==
    SelectSeq(df, LAMBDA r :
        /\ "start_date" \in DOMAIN p => r.date >= p.start_date
        /\ "end_date" \in DOMAIN p => r.date <= p.end_date
        /\ Truthy(Arg(p, "category")) => LowerName(r.category) = LowerName(p.category)
        /\ Truthy(Arg(p, "description_contains")) =>
              contains(r.description, p.description_contains)
        /\ (Truthy(Arg(p, "card_type")) /\ "card_type" \in Columns) =>
              LowerName(r.card_type) = LowerName(p.card_type)
        /\ (Truthy(Arg(p, "bank")) /\ "bank" \in Columns) =>
              LowerName(r.bank) = LowerName(p.bank)
        /\ (Truthy(Arg(p, "account_last4")) /\ "account_last4" \in Columns) =>
              r.account_last4 = p.account_last4)

\* result.head(50)
HeadLimit == 50

\* lines 379-392: the columns of a returned row
OutputRow(r) ==
    [date |-> DateText(r.date), description |-> r.description, amount |-> r.amount,
     category |-> r.category, card_type |-> r.card_type, bank |-> r.bank]

\* query_transactions; on the DataFrame of an empty table the date column
\* is not a datetime column and .dt raises
query_transactions(df, p) ==
    LET result == SelectSeq(Filtered(df, p), LAMBDA r :
                      /\ "min_amount" \in DOMAIN p => r.amount >= p.min_amount
                      /\ "max_amount" \in DOMAIN p => r.amount <= p.max_amount)
        head == SubSeq(result, 1, IF Len(result) < HeadLimit THEN Len(result) ELSE HeadLimit)
    IN  IF df = <<>>
        THEN Raised("AttributeError")
        ELSE Returned([count |-> Len(head),
                       transactions |-> [i \in DOMAIN head |-> OutputRow(head[i])]])

\* the group keys, in the order Python sorts them
GroupKeys ==
    <<"2024-11", "2025-01", "AMAZON.COM", "Chase", "PAY|ROLL", "credit", "debit", "income",
      "other", "shopping", "unknown">>

\* fillna('unknown')
fillna(value) == IF value = None THEN "unknown" ELSE value

\* lines 455-466: the group a row falls in; no group column is made for a
\* key that is none of these or names a column the DataFrame does not have
Groupable(group_by) ==
    \/ group_by \in {"month", "merchant", "category"}
    \/ group_by \in {"card_type", "bank", "account_last4"} /\ group_by \in Columns

GroupOf(r, group_by) ==
    CASE group_by = "month" -> SubSeq(GroupKeys, 1, 2)[IF r.date < 20250000 THEN 1 ELSE 2]
      [] group_by = "merchant" -> r.description
      [] group_by = "category" -> r.category
      [] group_by = "card_type" -> fillna(r.card_type)
      [] group_by = "bank" -> fillna(r.bank)

\* groupby('group'): the keys that occur, sorted
Groups(data, group_by) ==
    SelectSeq(GroupKeys, LAMBDA g : \E k \in DOMAIN data : GroupOf(data[k], group_by) = g)

InGroup(data, group_by, g) == SelectSeq(data, LAMBDA r : GroupOf(r, group_by) = g)

\* sorted(items, key, reverse=True) of Python: descending, stable; keys[i]
\* is the key of items[i]
SortedDescending(items, keys) ==
    LET before(j, k) == keys[j] > keys[k] \/ (keys[j] = keys[k] /\ j < k)
        nth(i) == CHOOSE k \in DOMAIN items :
                     Cardinality({j \in DOMAIN items : before(j, k)}) = i - 1
    IN  [i \in DOMAIN items |-> items[nth(i)]]

\* idxmin / idxmax: the first row of the least / greatest amount
Extreme(rows, sign) ==
    rows[CHOOSE k \in DOMAIN rows :
            \A j \in DOMAIN rows :
                \/ sign * rows[k].amount < sign * rows[j].amount
                \/ sign * rows[k].amount = sign * rows[j].amount /\ k <= j]

Detail(g, row) ==
    [group |-> g, date |-> DateText(row.date), description |-> row.description,
     amount |-> row.amount, category |-> row.category]

\* lines 468-517: aggregate with a group_by; with an operation that is none
\* of the five the method returns None
Grouped(data, operation, group_by) ==
    LET groups == Groups(data, group_by)
        rows(g) == InGroup(data, group_by, g)
        item(g) ==
            [key |-> g,
             value |-> CASE operation = "sum" -> SumAmount(rows(g))
                         [] operation = "avg" -> RoundDiv(SumAmount(rows(g)), Len(rows(g)))
                         [] operation = "count" -> Len(rows(g))]
        items == [i \in DOMAIN groups |-> item(groups[i])]
        details(sign) == [i \in DOMAIN groups |-> Detail(groups[i], Extreme(rows(groups[i]), sign))]
    IN  IF ~Groupable(group_by) THEN Raised("KeyError")
        ELSE IF operation \in {"sum", "avg"}
        THEN Returned([grouped_results |-> SortedDescending(items, [i \in DOMAIN items |-> Abs(items[i].value)]),
                       count |-> Len(data)])
        ELSE IF operation = "count"
        THEN Returned([grouped_results |-> SortedDescending(items, [i \in DOMAIN items |-> items[i].value]),
                       count |-> Len(data)])
        ELSE IF operation = "min"
        THEN Returned([transactions |-> SortedDescending(details(1), [i \in DOMAIN groups |-> -details(1)[i].amount]),
                       count |-> Len(groups)])
        ELSE IF operation = "max"
        THEN Returned([transactions |-> SortedDescending(details(-1), [i \in DOMAIN groups |-> Abs(details(-1)[i].amount)]),
                       count |-> Len(groups)])
        ELSE Returned(Nothing)

\* lines 519-549: aggregate without a group_by
Ungrouped(data, operation) ==
    LET detail(row) ==
            [result |-> row.amount,
             transaction |-> [date |-> DateText(row.date), description |-> row.description,
                              amount |-> row.amount]]
    IN  IF operation = "sum" THEN Returned([result |-> SumAmount(data), count |-> Len(data)])
        ELSE IF operation = "avg"
        THEN Returned([result |-> RoundDiv(SumAmount(data), Len(data)), count |-> Len(data)])
        ELSE IF operation = "count" THEN Returned([result |-> Len(data), count |-> Len(data)])
        ELSE IF operation = "min" THEN Returned(detail(Extreme(data, 1)))
        ELSE IF operation = "max" THEN Returned(detail(Extreme(data, -1)))
        ELSE Raised("UnboundLocalError")

NoMatch == [result |-> 0, count |-> 0, note |-> "No matching transactions"]

\* aggregate
aggregate(df, p) ==
    LET data == Filtered(df, p)
        expenses_only == "expenses_only" \in DOMAIN p /\ p.expenses_only
        income_only == "income_only" \in DOMAIN p /\ p.income_only
        outflows == SelectSeq(data, LAMBDA r : r.amount < 0)
        inflows == SelectSeq(data, LAMBDA r : r.amount > 0)
        kept == SelectSeq(data, LAMBDA r : /\ expenses_only => r.amount < 0
                                           /\ income_only => r.amount > 0)
    IN  IF data = <<>> THEN Returned(NoMatch)
        ELSE IF Truthy(Arg(p, "description_contains")) /\ p.operation = "sum"
                  /\ ~expenses_only /\ ~income_only
        THEN Returned([total_spent |-> Abs(SumAmount(outflows)),
                       total_refunds |-> SumAmount(inflows),
                       net |-> SumAmount(data),
                       transaction_count |-> Len(data),
                       expense_count |-> Len(outflows),
                       refund_count |-> Len(inflows)])
        ELSE IF kept = <<>> THEN Returned(NoMatch)
        ELSE IF Truthy(Arg(p, "group_by")) THEN Grouped(kept, p.operation, p.group_by)
        ELSE Ungrouped(kept, p.operation)

\* find_recurring: the merchants that occur min_occurrences times or more,
\* by descending count
find_recurring(df, min_occurrences) ==
    LET merchants == Groups(df, "merchant")
        rows(g) == InGroup(df, "merchant", g)
        stats == [i \in DOMAIN merchants |->
                     [description |-> merchants[i], count |-> Len(rows(merchants[i])),
                      avg_amount |-> RoundDiv(SumAmount(rows(merchants[i])), Len(rows(merchants[i]))),
                      total |-> SumAmount(rows(merchants[i]))]]
        kept == SelectSeq(stats, LAMBDA x : x.count >= min_occurrences)
        recurring == SortedDescending(kept, [i \in DOMAIN kept |-> kept[i].count])
    IN  [recurring_count |-> Len(recurring), recurring_charges |-> recurring]

\* the account filters every tool's definition declares
AccountFilters == {"card_type", "bank", "account_last4"}

\* TOOL_DEFINITIONS: the properties each tool declares
Declared(tool_name) ==
    CASE tool_name = "query_transactions" ->
            {"start_date", "end_date", "category", "description_contains", "min_amount",
             "max_amount"} \cup AccountFilters
      [] tool_name = "aggregate" ->
            {"operation", "group_by", "start_date", "end_date", "category",
             "description_contains", "expenses_only", "income_only"} \cup AccountFilters
      [] tool_name = "compare_periods" ->
            {"period1_start", "period1_end", "period2_start", "period2_end", "group_by"}
                \cup AccountFilters
      [] tool_name = "find_recurring" -> {"min_occurrences"} \cup AccountFilters
      [] tool_name = "detect_anomalies" -> {"category", "threshold"} \cup AccountFilters
      [] tool_name = "run_sql" -> {"query"}

\* the keyword parameters of the method of that name
Signature(tool_name) ==
    CASE tool_name = "query_transactions" -> Declared("query_transactions")
      [] tool_name = "aggregate" -> Declared("aggregate")
      [] tool_name = "compare_periods" ->
            {"period1_start", "period1_end", "period2_start", "period2_end", "group_by"}
      [] tool_name = "find_recurring" -> {"min_occurrences"}
      [] tool_name = "detect_anomalies" -> {"category", "threshold"}
      [] tool_name = "run_sql" -> {"query"}

\* the parameters without a default
Required(tool_name) ==
    CASE tool_name = "aggregate" -> {"operation"}
      [] tool_name = "compare_periods" ->
            {"period1_start", "period1_end", "period2_start", "period2_end"}
      [] tool_name = "run_sql" -> {"query"}
      [] OTHER -> {}

ToolNames ==
    {"query_transactions", "aggregate", "compare_periods", "find_recurring",
     "detect_anomalies", "run_sql"}

\* the four columns compare_periods and detect_anomalies read and return
Columns4(df) ==
    [k \in DOMAIN df |->
        ToolRow(df[k].date, df[k].description, df[k].amount, df[k].category)]

\* method(**params) on the FinanceTools object whose DataFrame is df, the
\* table holding db
Method(tool_name, df, db, params) ==
    CASE tool_name = "query_transactions" -> query_transactions(df, params)
      [] tool_name = "aggregate" -> aggregate(df, params)
      [] tool_name = "compare_periods" ->
            Returned(compare_periods(Columns4(df),
                        <<params.period1_start, params.period1_end>>,
                        <<params.period2_start, params.period2_end>>,
                        IF "group_by" \in DOMAIN params THEN params.group_by ELSE "total"))
      [] tool_name = "find_recurring" ->
            Returned(find_recurring(df, IF "min_occurrences" \in DOMAIN params
                                        THEN params.min_occurrences ELSE 3))
      [] tool_name = "detect_anomalies" ->
            Returned(detect_anomalies(Columns4(df), Arg(params, "category"),
                        IF "threshold" \in DOMAIN params THEN params.threshold ELSE 2))
      [] tool_name = "run_sql" -> run_sql(params.query, db)

\* FinanceTools.execute: an exception of the call, the TypeError of a keyword
\* the method does not take included, is returned as an error result
execute(tool_name, df, db, params) ==
    IF tool_name \notin ToolNames
    THEN [error |-> "Unknown tool"]
    ELSE IF ~(DOMAIN params \subseteq Signature(tool_name))
              \/ ~(Required(tool_name) \subseteq DOMAIN params)
    THEN [error |-> "TypeError"]
    ELSE LET result == Method(tool_name, df, db, params)
         IN  IF result.raised THEN [error |-> result.exc] ELSE result.value

\* the save calls made while the agent is in use
MaxSaves == 2

QueryDfPool == {<<R1, R4>>, <<R3>>}

QueryFilePool == {None, "a.pdf"}

NoArgs == [key \in {} |-> None]

\* the parameters the agent passes to each tool
ArgPool(tool_name) ==
    CASE tool_name = "query_transactions" ->
            { NoArgs,
              [category |-> "Shopping"],
              [start_date |-> 20241101, end_date |-> 20241130],
              [description_contains |-> "amazon"],
              [description_contains |-> "."],
              [min_amount |-> -4560, max_amount |-> 0],
              [card_type |-> "Credit"],
              [bank |-> "CHASE"],
              [account_last4 |-> "1234"],
              [category |-> "shopping", card_type |-> "debit", max_amount |-> -4561] }
      [] tool_name = "aggregate" ->
            {[operation |-> operation, group_by |-> group_by] :
                 operation \in {"sum", "avg", "count", "min", "max"},
                 group_by \in {"category", "month", "merchant", "card_type", "bank"}}
            \cup {[operation |-> operation] : operation \in {"sum", "avg", "count", "min", "max",
                                                             "median"}}
            \cup { [operation |-> "sum", group_by |-> "category", description_contains |-> "amazon"],
                   [operation |-> "count", group_by |-> "category", description_contains |-> "amazon"],
                   [operation |-> "sum", group_by |-> "account_last4"],
                   [operation |-> "sum", group_by |-> "category", expenses_only |-> TRUE],
                   [operation |-> "avg", group_by |-> "month", income_only |-> TRUE],
                   [operation |-> "sum", group_by |-> "category", bank |-> "Chase"],
                   [operation |-> "median", group_by |-> "category"] }
      [] tool_name = "compare_periods" ->
            {[period1_start |-> 20241101, period1_end |-> 20241130,
              period2_start |-> 20250101, period2_end |-> 20250131, group_by |-> group_by] :
                 group_by \in {"total", "category"}}
            \cup { [period1_start |-> 20241101, period1_end |-> 20241130,
                    period2_start |-> 20250101, period2_end |-> 20250131, card_type |-> "credit"] }
      [] tool_name = "find_recurring" ->
            {NoArgs, [min_occurrences |-> 1], [min_occurrences |-> 1, bank |-> "Chase"]}
      [] tool_name = "detect_anomalies" ->
            {NoArgs, [threshold |-> 1], [threshold |-> 1, account_last4 |-> "1234"]}
      [] tool_name = "run_sql" -> {[query |-> sql] : sql \in SqlPool}
      [] OTHER -> {NoArgs}

\* FinanceTools(): self.df = load_transactions(), the committed rows; no
\* code calls reload() afterwards
Construct ==
    /\ tool.pc = "idle"
    /\ tool' = [IdleTool EXCEPT !.pc = "loaded", !.df = load_transactions(transactions)]
    /\ UNCHANGED <<ledger_vars, classifier_vars, parse, stmt, san, draft>>

\* agent.py, line 161: self.finance_tools.execute(tool_name, tool_params)
Execute(tool_name, params) ==
    /\ tool.pc # "idle"
    /\ tool' = [tool EXCEPT !.pc = "done", !.name = tool_name, !.args = params,
                   !.outcome = execute(tool_name, tool.df, transactions, params)]
    /\ UNCHANGED <<ledger_vars, classifier_vars, parse, stmt, san, draft>>

\* run_query called with a text
RunQuery(sql) ==
    /\ tool.pc # "idle"
    /\ tool' = [tool EXCEPT !.pc = "done", !.name = "run_query", !.args = [sql |-> sql],
                   !.outcome = run_query(sql, transactions)]
    /\ UNCHANGED <<ledger_vars, classifier_vars, parse, stmt, san, draft>>

NextQuery ==
    \/ \E p \in Procs, df \in QueryDfPool, sf \in QueryFilePool :
          Quiet /\ calls < MaxSaves /\ SaveBegin(p, df, sf, Client(p)[1], Client(p)[2])
    \/ \E p \in Procs : SaveInsert(p)
    \/ \E p \in Procs : SaveFinish(p)
    \/ Construct
    \/ \E tool_name \in ToolNames \cup {"get_balance"} :
          \E params \in ArgPool(tool_name) : Execute(tool_name, params)
    \/ \E sql \in SqlPool : RunQuery(sql)

SpecQuery == Init /\ [][NextQuery]_vars

(***************************************************************************)
(* process_upload (app.py) from its first line: the registry check, the    *)
(* call of parse_single_statement, and what the except clause makes of it. *)
(* The steps after a parse that returned are the actions of SpecUpload.    *)
(***************************************************************************)
\* the uploaded files: a name and the text pdfplumber extracts
UploadPool ==
    {[name |-> name, text |-> text] :
        name \in {"a.pdf", "b.pdf"},
        text \in { <<Header("February", 2024, 2024),
                     Section(<<TxLine(2, 29, "D"), JunkLine, TxLine(2, 28, "E")>>)>>,
                   <<Header("January", 2023, 2023), Section(<<>>)>> }}

\* df.sort_values('Date')
sort_values(rows) ==
    SortedDescending(rows, [i \in DOMAIN rows |->
                               -(rows[i].Date[1] * 10000 + rows[i].Date[2] * 100 + rows[i].Date[3])])

\* parse_single_statement(pdf_path), called with the positional arguments
\* args on a file of that text: Python raises TypeError for an argument the
\* function has no parameter for
parse_single_statement(args, text) ==
    IF Len(args) # 1 THEN Raised("TypeError")
    ELSE LET parsed == _parse_transactions(text)
         IN  IF parsed.raised THEN parsed ELSE Returned(sort_values(parsed.value))

\* process_upload up to the return that follows the parse: False for a file
\* already imported, for an exception (except Exception) and for an empty
\* DataFrame
ProcessUpload(uploaded_file, statement_type) ==
    /\ draft.pc \in {"idle", "returned"}
    /\ LET df == parse_single_statement(<<uploaded_file.name, statement_type>>,
                                        uploaded_file.text)
           frame == [pc |-> "returned", df |-> <<>>, result |-> FALSE,
                     name |-> uploaded_file.name, text |-> uploaded_file.text,
                     statement_type |-> statement_type, message |-> None]
       IN  IF is_file_imported(uploaded_file.name)
           THEN draft' = [frame EXCEPT !.message = "already imported"]
           ELSE IF df.raised
           THEN draft' = [frame EXCEPT !.message = df.exc]
           ELSE IF df.value = <<>>
           THEN draft' = [frame EXCEPT !.message = "No transactions found"]
           ELSE draft' = [frame EXCEPT !.pc = "parsed", !.df = df.value, !.result = <<>>]
    /\ UNCHANGED <<ledger_vars, classifier_vars, parse, stmt, san, tool>>

\* uploads, and save_transactions called on DataFrames of the caller's own
NextPipeline ==
    \/ \E uploaded_file \in UploadPool, statement_type \in {"credit", "debit"} :
          ProcessUpload(uploaded_file, statement_type)
    \/ \E p \in Procs, df \in QueryDfPool, sf \in QueryFilePool :
          Quiet /\ calls < MaxSaves /\ SaveBegin(p, df, sf, Client(p)[1], Client(p)[2])
    \/ \E p \in Procs : SaveInsert(p)
    \/ \E p \in Procs : SaveFinish(p)

SpecPipeline == Init /\ [][NextPipeline]_vars

(***************************************************************************)
(* The bulk deletes: clear_transactions (database.py) and                  *)
(* clear_category_cache (preprocess.py), between imports.                  *)
(***************************************************************************)
\* the tables of the database file
Tables ==
    [transactions |-> transactions, imported_files |-> imported_files,
     merchant_categories |-> merchant_categories]

\* a mutant of clear_transactions: the file registry is emptied too
ClearLedgerAndRegistry(tables) ==
    [tables EXCEPT !.transactions = <<>>, !.imported_files = {}]

\* clear_transactions: DELETE FROM transactions
clear_transactions(tables) == [tables EXCEPT !.transactions = <<>>]

\* clear_category_cache: DELETE FROM merchant_categories
clear_category_cache(tables) == [tables EXCEPT !.merchant_categories = <<>>]

\* the commit of a connection that left the tables as after
Committed(after) ==
    /\ transactions' = after.transactions
    /\ imported_files' = after.imported_files
    /\ merchant_categories' = after.merchant_categories

\* clear_transactions called; the DELETE waits for the write lock
ClearTransactions ==
    /\ db_writer = 0
    /\ Committed(clear_transactions(Tables))
    /\ UNCHANGED <<file_seq, db_writer, save, calls, sent, cat, cat_calls, call_vars>>

\* clear_category_cache called
ClearCategoryCache ==
    /\ db_writer = 0
    /\ Committed(clear_category_cache(Tables))
    /\ UNCHANGED <<file_seq, db_writer, save, calls, sent, cat, cat_calls, call_vars>>

\* the statements imported between the deletes
ClearDfPool == {<<Parsed(R1)>>, <<Parsed(R3), Parsed(R1), Parsed(R3)>>}

\* imports made one after the other, and the two deletes at any time
NextClear ==
    \/ \E df \in ClearDfPool : QuietAll /\ CatBegin(Importer, df)
    \/ \E response \in ResponsePool(Len(NextBatch(cat[Importer], DefaultBatchSize))) :
          GeminiBatch(Importer, DefaultBatchSize, response)
    \/ CatFinish(Importer)
    \/ \E sf \in ImportFilePool : QuietAll /\ SaveCategorized(Importer, sf)
    \/ SaveInsert(Importer)
    \/ SaveFinish(Importer)
    \/ ClearTransactions
    \/ ClearCategoryCache

SpecClear == Init /\ [][NextClear]_vars

(***************************************************************************)
(* The ledger store's properties.                                          *)
(***************************************************************************)
\* the logical transaction of a DataFrame row, as the ledger stores it
Logical(r) == <<strftime(r.Date), r.Description, r.Amount>>

\* the stored rows of sequence rows that hold DataFrame row r's transaction
Holding(rows, r) ==
    {k \in DOMAIN rows :
        <<rows[k].date, rows[k].description, rows[k].amount>> = Logical(r)}

\* client p made a step of its own call
Begins(p) == save[p].pc \in {"idle", "returned"} /\ save'[p] # save[p]

Inserts(p) == save[p].pc = "loop" /\ save'[p] # save[p] /\ save'[p].pc = "loop"

Finishes(p) == save[p].pc = "loop" /\ save'[p].pc = "returned"

\* C1: a save call whose sourceFile is in the ImportedFile registry returns
\* savedCount = 0 and alreadyImported = true at once, examines no row and
\* leaves ledger and registry as they were, whatever rows it was given.
C1_ReimportIsNoOp ==
    [][\A p \in Procs :
          (Begins(p) /\ \E f \in imported_files : f.filename = save'[p].source_file)
          => /\ save'[p].pc = "returned"
             /\ save'[p].result =
                    [saved_count |-> 0, skipped_count |-> 0, already_imported |-> TRUE]
             /\ save'[p].i = 0
             /\ save'[p].pending = <<>>
             /\ transactions' = transactions
             /\ imported_files' = imported_files]_vars

\* a re-import that was given a row the ledger does not hold has returned
C1_Witness ==
    \E p \in Procs :
        /\ save[p].pc = "returned"
        /\ save[p].result.already_imported
        /\ \E k \in DOMAIN save[p].df : Holding(transactions, save[p].df[k]) = {}

\* C2: no two stored rows have the same dedup hash, nor the same date,
\* description and amount; a logical transaction submitted by a save call
\* that was not short-circuited is stored exactly once, whatever other
\* calls (other files, card types, banks) submitted it too.
C2_OneRowPerTransaction ==
    /\ \A j, k \in DOMAIN transactions :
          j # k => /\ transactions[j].txn_hash # transactions[k].txn_hash
                   /\ <<transactions[j].date, transactions[j].description,
                         transactions[j].amount>>
                        # <<transactions[k].date, transactions[k].description,
                            transactions[k].amount>>
    /\ \A p \in Procs :
          (save[p].pc = "returned" /\ ~save[p].result.already_imported)
          => \A k \in DOMAIN save[p].df :
                Cardinality(Holding(transactions, save[p].df[k])) = 1

\* two calls under different source files and card types submitted the same
\* logical transaction
C2_Witness ==
    \E p, q \in Procs :
        /\ p # q
        /\ save[p].pc = "returned" /\ save[q].pc = "returned"
        /\ ~save[p].result.already_imported /\ ~save[q].result.already_imported
        /\ save[p].source_file # save[q].source_file
        /\ save[p].card_type # save[q].card_type
        /\ \E j \in DOMAIN save[p].df, k \in DOMAIN save[q].df :
              Logical(save[p].df[j]) = Logical(save[q].df[k])

\* C3: a save call that passed the registry check while another call for
\* the same file had not yet recorded it, and finishes after that call
\* recorded it, returns a normal result, and the ledger then holds exactly
\* one row for each dedup hash of the file's rows.
C3_RaceAbsorbed ==
    [][\A p \in Procs :
          (Finishes(p) /\ is_file_imported(save[p].source_file))
          => /\ ~save'[p].result.already_imported
             /\ save'[p].result.saved_count + save'[p].result.skipped_count
                    = Len(save[p].df)
             /\ \A k \in DOMAIN save[p].df :
                   Cardinality({j \in DOMAIN transactions' :
                       transactions'[j].txn_hash =
                           LedgerRow(save[p].df[k], None, None, None).txn_hash}) = 1]_vars

\* both clients imported the same file with the same rows, and neither was
\* short-circuited
C3_Witness ==
    /\ \A p \in Procs : save[p].pc = "returned" /\ ~save[p].result.already_imported
    /\ save[1].source_file = save[2].source_file
    /\ Truthy(save[1].source_file)
    /\ save[1].df = save[2].df
    /\ Len(save[1].df) > 1
    /\ file_seq = 2

\* C4: in a save call that is not short-circuited, a row the connection
\* already sees in the ledger adds one to skippedCount and the loop goes on;
\* any other row adds one to savedCount; on return savedCount +
\* skippedCount is the number of rows given and the ledger has grown by
\* savedCount rows.
C4_CountsAddUp ==
    [][\A p \in Procs :
          /\ Inserts(p) =>
                LET r == save[p].df[save[p].i + 1]
                IN  /\ save'[p].i = save[p].i + 1
                    /\ IF Holding(Visible(p), r) # {}
                       THEN /\ save'[p].skipped_count = save[p].skipped_count + 1
                            /\ save'[p].saved_count = save[p].saved_count
                       ELSE /\ save'[p].saved_count = save[p].saved_count + 1
                            /\ save'[p].skipped_count = save[p].skipped_count
          /\ Finishes(p) =>
                /\ save[p].i = Len(save[p].df)
                /\ save'[p].result.saved_count + save'[p].result.skipped_count
                      = Len(save[p].df)
                /\ Len(transactions') = Len(transactions) + save'[p].result.saved_count]_vars

\* a call saved some of its rows and skipped others
C4_Witness ==
    \E p \in Procs :
        /\ save[p].pc = "returned"
        /\ ~save[p].result.already_imported
        /\ save[p].result.saved_count > 0
        /\ save[p].result.skipped_count > 0

CategorySet == {CATEGORIES[k] : k \in DOMAIN CATEGORIES}

\* a categorize call of client p begins
CatBegins(p) == cat_calls' = cat_calls + 1 /\ cat'[p] # cat[p]

\* C6 (calls made one after the other): no step sends the external service
\* a text that has an entry in the merchant-category cache; a categorize
\* call whose descriptions are all cached issues no request and returns the
\* cached categories.
C6_CachedNeverSent ==
    [][/\ \A m \in DOMAIN merchant_categories : sent'[m] = sent[m]
       /\ \A p \in Procs :
             (CatBegins(p) /\ \A k \in DOMAIN cat'[p].df :
                                cat'[p].df[k].Description \in DOMAIN merchant_categories)
             => /\ cat'[p].pc = "returned"
                /\ sent' = sent
                /\ merchant_categories' = merchant_categories
                /\ DOMAIN cat'[p].result = DOMAIN cat'[p].df
                /\ \A k \in DOMAIN cat'[p].df :
                      /\ cat'[p].result[k].Description = cat'[p].df[k].Description
                      /\ cat'[p].result[k].Category =
                            merchant_categories[cat'[p].df[k].Description]]_vars

\* a second categorize call found all its texts cached by the first and has
\* returned, each of its texts having been sent once
C6_Witness ==
    /\ cat_calls = 2
    /\ cat[Importer].pc = "returned"
    /\ cat[Importer].uncategorized = <<>>
    /\ Len(cat[Importer].df) = 3
    /\ \A k \in DOMAIN cat[Importer].df : sent[cat[Importer].df[k].Description] = 1

\* C7: over any two categorize calls, and every outcome of the first, the
\* external service receives a merchant text in at most one request.
C7_SentAtMostOnce == \A m \in Merchants : sent[m] <= 1

\* C8: for every response text and every expected_count,
\* _parse_llm_response does not raise and returns expected_count labels:
\* an array padded with "other" or cut to its first expected_count
\* elements, anything else expected_count times "other".
C8_ParseIsTotal ==
    parse.pc = "done" =>
        /\ ~parse.outcome.raised
        /\ Len(parse.outcome.value) = parse.expected_count
        /\ \A k \in 1..parse.expected_count :
              parse.outcome.value[k] =
                 IF parse.response_text.kind = "array" /\ k <= Len(parse.response_text.items)
                        /\ parse.response_text.items[k] \in CategorySet
                 THEN parse.response_text.items[k]
                 ELSE "other"

\* C9: every label is in the vocabulary: the labels response parsing
\* returned, the values of the merchant-category cache, the Category of
\* every row categorize returned and of every ledger row written from it.
C9_LabelsInVocabulary ==
    /\ \A m \in DOMAIN merchant_categories : merchant_categories[m] \in CategorySet
    /\ \A p \in Procs :
          /\ \A k \in DOMAIN cat[p].all_categories : cat[p].all_categories[k] \in CategorySet
          /\ \A m \in DOMAIN cat[p].cache : cat[p].cache[m] \in CategorySet
          /\ \A k \in DOMAIN cat[p].result : cat[p].result[k].Category \in CategorySet
          /\ \A k \in DOMAIN save[p].pending : save[p].pending[k].category \in CategorySet
    /\ \A k \in DOMAIN transactions : transactions[k].category \in CategorySet

\* the ledger holds a row labelled by the service and a row whose label,
\* outside the vocabulary or missing, became "other"
C9_Witness ==
    /\ \E k \in DOMAIN transactions : transactions[k].category = "dining"
    /\ \E k \in DOMAIN transactions :
          /\ transactions[k].category = "other"
          /\ transactions[k].description \in DOMAIN merchant_categories
          /\ merchant_categories[transactions[k].description] = "other"

\* C10: when the external call has failed for a batch of an import, the
\* categories the earlier batches resolved are in the merchant-category
\* cache, and the rows whose descriptions were resolved (cached, or
\* classified by an earlier batch) are in the ledger.
C10_FailedBatchKeepsResolved ==
    \A p \in Procs :
        cat[p].pc = "raised" =>
            LET f == cat[p]
                resolved == DOMAIN f.cache
                              \cup {f.uncategorized[k] : k \in DOMAIN f.all_categories}
            IN  /\ \A k \in DOMAIN f.all_categories :
                      /\ f.uncategorized[k] \in DOMAIN merchant_categories
                      /\ merchant_categories[f.uncategorized[k]] = f.all_categories[k]
                /\ \A k \in DOMAIN f.df :
                      f.df[k].Description \in resolved
                          => Holding(transactions, f.df[k]) # {}

\* every batch of client p's call is answered and its cache is about to be
\* written
ReadyToWrite(p) == cat[p].pc = "gemini" /\ cat[p].i >= Len(cat[p].uncategorized)

\* the in-memory cache client p's call writes back
WrittenBy(p) == Merged(cat[p].cache, cat[p].uncategorized, cat[p].all_categories)

\* C11: when two categorize calls are both about to write their caches, the
\* table is the same whichever writes first; and a write never replaces an
\* entry, rewritten since the writer loaded it, by the value the writer
\* loaded.
C11_WriteOrderIrrelevant ==
    /\ [](\A p, q \in Procs :
            (p # q /\ ReadyToWrite(p) /\ ReadyToWrite(q))
            => Upserted(Upserted(merchant_categories, WrittenBy(p)), WrittenBy(q))
                 = Upserted(Upserted(merchant_categories, WrittenBy(q)), WrittenBy(p)))
    /\ [][\A p \in Procs :
            (ReadyToWrite(p) /\ cat'[p].pc = "returned")
            => \A m \in DOMAIN cat[p].cache \cap DOMAIN merchant_categories :
                  merchant_categories[m] # cat[p].cache[m]
                      => merchant_categories'[m] = merchant_categories[m]]_vars

(***************************************************************************)
(* The statement parser's properties.                                      *)
(***************************************************************************)
\* C12: for every line month, start month, start year and end year, the
\* year of the line is the start year when the two years are equal,
\* otherwise the start year if the line's month >= the start month, else the
\* end year.
C12_YearOfLine ==
    stmt.pc = "done" =>
        LET header == stmt.text[1]
            line   == stmt.text[2].lines[1]
            sm     == CHOOSE k \in 1..12 : MonthNames[k] = header.start_month_name
            year   == IF header.start_year = header.end_year THEN header.start_year
                      ELSE IF line.month >= sm THEN header.start_year
                      ELSE header.end_year
        IN  /\ ~stmt.outcome.raised
            /\ IF line.day <= DaysInMonth(year, line.month)
               THEN /\ Len(stmt.outcome.value) = 1
                    /\ stmt.outcome.value[1].Date = <<year, line.month, line.day>>
               ELSE stmt.outcome.value = <<>>

\* a line of the start month, under a header whose years differ, was
\* returned with the start year
C12_Witness ==
    /\ stmt.pc = "done"
    /\ stmt.text[1] = Header("December", 2024, 2025)
    /\ stmt.text[2].lines[1].month = 12
    /\ stmt.outcome.value # <<>>
    /\ stmt.outcome.value[1].Date = <<2024, 12, 31>>

\* the position of the header the claim names for a section at position pos:
\* the greatest header position not after pos, 0 when there is none
NearestPreceding(text, pos) ==
    LET before == {k \in DOMAIN text : text[k].kind = "header" /\ k <= pos}
    IN  IF before = {} THEN 0 ELSE CHOOSE k \in before : \A j \in before : j <= k

\* C13: the header used for a section is the one with the greatest position
\* not after the section's position, and none when no header precedes it;
\* when the call returns, the lines of every section carry the years that
\* header gives.
C13_NearestPrecedingHeader ==
    stmt.pc = "done" =>
        LET sections == transaction_sections(stmt.text)
            used     == UsedHeaders(stmt.text)
        IN  /\ \A i \in DOMAIN sections :
                  LET at == NearestPreceding(stmt.text, sections[i][1])
                  IN  IF at = 0 THEN used[i].none
                      ELSE ~used[i].none /\ used[i].value = stmt.text[at]
            /\ ~stmt.outcome.raised =>
                  \A k \in DOMAIN stmt.outcome.value :
                     \E i \in DOMAIN sections :
                        LET at == NearestPreceding(stmt.text, sections[i][1])
                        IN  /\ at # 0
                            /\ \E j \in DOMAIN sections[i][2] :
                                  /\ sections[i][2][j].description
                                        = stmt.outcome.value[k].Description
                                  /\ stmt.outcome.value[k].Date[1]
                                        \in {stmt.text[at].start_year, stmt.text[at].end_year}

\* a section between two different headers, a third item apart: its lines
\* were returned with the year of the header before it
C13_Witness ==
    /\ stmt.pc = "done"
    /\ Len(stmt.text) = 3
    /\ stmt.text[1] = Header("January", 2023, 2023)
    /\ stmt.text[2] = Header("February", 2024, 2024)
    /\ stmt.text[3].kind = "section"
    /\ ~stmt.outcome.raised
    /\ \E k \in DOMAIN stmt.outcome.value : stmt.outcome.value[k].Date = <<2024, 2, 29>>

\* the descriptions of the lines the claim keeps: those that match the line
\* pattern and whose month/day is a calendar date in the year of the line
WellFormed(lines, header) ==
    LET sm == MONTH_MAP[header.start_month_name]
        year(l) == IF header.start_year = header.end_year \/ l.month >= sm
                   THEN header.start_year ELSE header.end_year
        good == SelectSeq(lines, LAMBDA l : l.matched /\ l.month \in 1..12
                                            /\ l.day \in 1..DaysInMonth(year(l), l.month))
    IN  [k \in DOMAIN good |-> good[k].description]

\* the text without the lines that match the line pattern and whose date,
\* in the year their section's header gives, is no calendar date
WithoutInvalidDates(text) ==
    [k \in DOMAIN text |->
        IF text[k].kind # "section" THEN text[k]
        ELSE LET at == NearestPreceding(text, k)
             IN  IF at = 0 THEN text[k]
                 ELSE IF text[at].start_month_name \notin DOMAIN MONTH_MAP THEN text[k]
                 ELSE LET sm == MONTH_MAP[text[at].start_month_name]
                          year(l) == IF text[at].start_year = text[at].end_year \/ l.month >= sm
                                     THEN text[at].start_year ELSE text[at].end_year
                      IN  Section(SelectSeq(text[k].lines,
                              LAMBDA l : ~l.matched
                                         \/ (l.month \in 1..12
                                             /\ l.day \in 1..DaysInMonth(year(l), l.month))))]

\* C14: the outcome of the call is the outcome the text has without its
\* invalid-date lines; when the call returns, the result holds every
\* well-formed line of every section that has a header, in the order of the
\* text.
C14_InvalidDateSkippedAlone ==
    stmt.pc = "done" =>
        /\ stmt.outcome = _parse_transactions(WithoutInvalidDates(stmt.text))
        /\ ~stmt.outcome.raised =>
              LET sections == transaction_sections(stmt.text)
              IN  [k \in DOMAIN stmt.outcome.value |-> stmt.outcome.value[k].Description]
                    = Flatten([i \in DOMAIN sections |->
                          LET at == NearestPreceding(stmt.text, sections[i][1])
                          IN  IF at = 0 THEN <<>>
                              ELSE WellFormed(sections[i][2], stmt.text[at])])

\* a section with 02/30 between two good lines and a section with 02/29 in a
\* year that is no leap year: the other lines of both were returned
C14_Witness ==
    /\ stmt.pc = "done"
    /\ ~stmt.outcome.raised
    /\ Len(stmt.text) = 3
    /\ stmt.text[1] = Header("January", 2023, 2023)
    /\ [k \in DOMAIN stmt.outcome.value |-> stmt.outcome.value[k].Description]
          = <<"A", "C", "E">>

\* C15: _parse_transactions raises for no text.
C15_ParseNeverRaises == stmt.pc = "done" => ~stmt.outcome.raised

\* C16: in the credit and debit dialects a returned line has the header
\* year minus one when its month is greater than the header's month, and
\* the header year otherwise.
C16_DialectYear ==
    stmt.pc = "done" =>
        LET header == stmt.text[1]
            line   == stmt.text[2].lines[1]
        IN  \A k \in DOMAIN stmt.outcome.value :
               /\ stmt.outcome.value[k].Date[2] = line.month
               /\ line.month > header.month
                     => stmt.outcome.value[k].Date[1] = header.year - 1
               /\ line.month <= header.month
                     => stmt.outcome.value[k].Date[1] = header.year

\* header 2025-01-10, line 12/28: year 2024
C16_Witness ==
    /\ stmt.pc = "done"
    /\ stmt.text[1] = StatementDate(2025, 1, 10)
    /\ stmt.outcome.value # <<>>
    /\ stmt.outcome.value[1].Date = <<2024, 12, 28>>

(***************************************************************************)
(* The sanitizer's properties.                                             *)
(***************************************************************************)
\* C17: sanitize(sanitize(x)) = sanitize(x) for every description x.
C17_SanitizeIdempotent ==
    Len(san.results) = 2 => san.results[2] = san.results[1]

\* the rows hold no balance
NoBalance(rows) ==
    \A k \in DOMAIN rows : DOMAIN rows[k] \cap {"Balance", "balance"} = {}

\* C18: what sanitize returns has a row for every row it was given, with
\* the same date and amount and no Balance; no DataFrame handed on from it
\* and no ledger row holds a balance.
C18_BalanceNeverPersisted ==
    /\ draft.pc = "sanitized" =>
          /\ DOMAIN draft.result = DOMAIN draft.df
          /\ NoBalance(draft.result)
          /\ \A k \in DOMAIN draft.df :
                /\ draft.result[k].Date = draft.df[k].Date
                /\ draft.result[k].Amount = draft.df[k].Amount
    /\ NoBalance(transactions)
    /\ \A p \in Procs :
          NoBalance(cat[p].df) /\ NoBalance(cat[p].result) /\ NoBalance(save[p].pending)

\* the rows of a statement parsed with balances are in the ledger
C18_Witness ==
    /\ draft.pc = "sanitized"
    /\ Len(draft.df) = 3
    /\ \A k \in DOMAIN draft.df : draft.df[k].Balance > 0
    /\ Len(transactions) = 2

(***************************************************************************)
(* The tools' properties.                                                  *)
(***************************************************************************)
\* the sum of the amounts of the DataFrame's rows dated within the period
TotalOf(df, period) ==
    SumAmount([k \in 1..Cardinality({j \in DOMAIN df :
                                        df[j].date >= period[1] /\ df[j].date <= period[2]}) |->
                 df[Ascending({j \in DOMAIN df :
                                 df[j].date >= period[1] /\ df[j].date <= period[2]})[k]]])

\* C19: compare_periods in total mode returns difference = total2 - total1
\* and percentChange = difference / |total1| * 100 (to the nearest tenth of
\* a percent), and percentChange = 0 whenever total1 is 0.
C19_ComparePeriodsTotal ==
    (tool.pc = "done" /\ tool.name = "compare_periods" /\ tool.args.group_by = "total") =>
        LET total1 == TotalOf(tool.df, tool.args.period1)
            total2 == TotalOf(tool.df, tool.args.period2)
            out    == tool.outcome
        IN  /\ out.period1.total = total1
            /\ out.period2.total = total2
            /\ out.difference = total2 - total1
            /\ total1 = 0 => out.percent_change = 0
            /\ total1 # 0 =>
                  2 * Abs(out.percent_change * Abs(total1) - out.difference * 1000)
                      <= Abs(total1)

\* period 1 held rows whose amounts cancel to 0, period 2 did not cancel
C19_Witness ==
    /\ tool.pc = "done"
    /\ tool.name = "compare_periods"
    /\ tool.args.group_by = "total"
    /\ Between(tool.df, tool.args.period1[1], tool.args.period1[2]) # <<>>
    /\ tool.outcome.period1.total = 0
    /\ tool.outcome.difference < 0
    /\ tool.outcome.percent_change = 0

\* C20: with fewer than 3 rows of amount < 0 left after the category filter,
\* detect_anomalies returns an empty anomaly list and a note, and nothing
\* else.
C20_TooFewOutflows ==
    (tool.pc = "done" /\ tool.name = "detect_anomalies") =>
        LET outflows == {k \in DOMAIN tool.df :
                           /\ tool.df[k].amount < 0
                           /\ Truthy(tool.args.category)
                                 => Lower(tool.df[k].category) = Lower(tool.args.category)}
        IN  Cardinality(outflows) < 3 =>
               /\ DOMAIN tool.outcome = {"anomalies", "note"}
               /\ tool.outcome.anomalies = <<>>
               /\ tool.outcome.note \in {"No data to analyze",
                                         "Not enough transactions to detect anomalies"}

\* a ledger with three outflows, two of them in the category asked for
C20_Witness ==
    /\ tool.pc = "done"
    /\ tool.name = "detect_anomalies"
    /\ tool.args.category = "Dining"
    /\ Cardinality({k \in DOMAIN tool.df : tool.df[k].amount < 0}) = 3
    /\ Cardinality({k \in DOMAIN tool.df : tool.df[k].category = "dining"}) = 2
    /\ tool.outcome.anomalies = <<>>

\* the rows of the DataFrame that qualify: amount < 0, of the category
\* asked for when one is
Outflows(df, category) ==
    {k \in DOMAIN df :
        /\ df[k].amount < 0
        /\ Truthy(category) => Lower(df[k].category) = Lower(category)}

\* amount < mean - threshold * stddev with the population standard
\* deviation (divisor n) of the amounts of the rows in Q, in whole numbers:
\* S - n * amount > 0 and (S - n * amount)^2 * n > threshold^2 * sum of
\* (n * x - S)^2
BelowPopulationBand(df, Q, threshold, amount) ==
    LET n == Cardinality(Q)
        rows == [i \in 1..n |-> df[Ascending(Q)[i]]]
        S == SumAmount(rows)
        squares == SumAmount([i \in 1..n |->
                       [amount |-> (n * rows[i].amount - S) * (n * rows[i].amount - S)]])
    IN  /\ S - n * amount > 0
        /\ (S - n * amount) * (S - n * amount) * n > threshold * threshold * squares

\* C21: with at least 3 qualifying outflows, detect_anomalies returns
\* exactly the outflows whose amount is below mean - threshold * stddev,
\* stddev being the population standard deviation, sorted by amount
\* ascending.
C21_PopulationStdDev ==
    (tool.pc = "done" /\ tool.name = "detect_anomalies") =>
        LET Q == Outflows(tool.df, tool.args.category)
        IN  Cardinality(Q) >= 3 =>
               /\ "note" \notin DOMAIN tool.outcome
               /\ {tool.outcome.anomalies[i].description : i \in DOMAIN tool.outcome.anomalies}
                     = {tool.df[k].description :
                          k \in {j \in Q : BelowPopulationBand(tool.df, Q, tool.args.threshold,
                                                               tool.df[j].amount)}}
               /\ \A i, j \in DOMAIN tool.outcome.anomalies :
                     i < j => tool.outcome.anomalies[i].amount <= tool.outcome.anomalies[j].amount

(***************************************************************************)
(* The query engine's properties.                                          *)
(***************************************************************************)
\* the call ended in an exception that reaches its caller
HardError(outcome) == "raised" \in DOMAIN outcome /\ outcome.raised

\* this step is a free-form query, through run_sql or run_query itself, whose
\* text does not begin with the selector keyword
RejectedQuery ==
    /\ tool' # tool
    /\ tool'.pc = "done"
    /\ \/ tool'.name = "run_sql" /\ NotSelect(tool'.args.query)
       \/ tool'.name = "run_query" /\ NotSelect(tool'.args.sql)

\* C22: a free-form query that does not begin with the selector keyword
\* (trimmed, in any case) executes nothing, leaves ledger, file registry and
\* cache unchanged, and reaches the caller as a hard error, not as a result.
C22_RejectedIsHardError ==
    [][RejectedQuery =>
          /\ UNCHANGED <<transactions, imported_files, merchant_categories>>
          /\ HardError(tool'.outcome)]_vars

\* description holds text as a substring, case ignored
HasSubstring(description, text) ==
    \/ text = "amazon" /\ description = "AMAZON.COM"
    \/ text = "pay" /\ description = "PAY|ROLL"
    \/ text = "." /\ description = "AMAZON.COM"

\* a returned row satisfies every predicate that was supplied
Satisfies(row, p) ==
    /\ "start_date" \in DOMAIN p => to_datetime(row.date) >= p.start_date
    /\ "end_date" \in DOMAIN p => to_datetime(row.date) <= p.end_date
    /\ "category" \in DOMAIN p => LowerName(row.category) = LowerName(p.category)
    /\ "description_contains" \in DOMAIN p => HasSubstring(row.description, p.description_contains)
    /\ "min_amount" \in DOMAIN p => row.amount >= p.min_amount
    /\ "max_amount" \in DOMAIN p => row.amount <= p.max_amount
    /\ "card_type" \in DOMAIN p => LowerName(row.card_type) = LowerName(p.card_type)
    /\ "bank" \in DOMAIN p => LowerName(row.bank) = LowerName(p.bank)
    /\ "account_last4" \in DOMAIN p =>
          "account_last4" \in DOMAIN row /\ row.account_last4 = p.account_last4

\* C23: query_transactions returns at most 50 rows, and every returned row
\* satisfies all the supplied predicates: date range, category, description
\* substring (case ignored), amount range, card type, bank and account.
C23_RowsSatisfyPredicates ==
    (tool.pc = "done" /\ tool.name = "query_transactions" /\ "error" \notin DOMAIN tool.outcome) =>
        /\ tool.outcome.count <= 50
        /\ \A i \in DOMAIN tool.outcome.transactions :
              Satisfies(tool.outcome.transactions[i], tool.args)

\* the rows an aggregate call with parameters p is about: those the filters
\* keep, outflows or inflows only when asked
Aggregated(df, p) ==
    SelectSeq(Filtered(df, p), LAMBDA r :
        /\ ("expenses_only" \in DOMAIN p /\ p.expenses_only) => r.amount < 0
        /\ ("income_only" \in DOMAIN p /\ p.income_only) => r.amount > 0)

\* aggregate was called with a grouping key and sum, avg or count, and some
\* row matches
GroupedCall ==
    /\ tool.pc = "done"
    /\ tool.name = "aggregate"
    /\ "group_by" \in DOMAIN tool.args
    /\ tool.args.operation \in {"sum", "avg", "count"}
    /\ Aggregated(tool.df, tool.args) # <<>>

RECURSIVE SumValues(_)
SumValues(items) == IF items = <<>> THEN 0 ELSE Head(items).value + SumValues(Tail(items))

\* C24: aggregate with a grouping key and sum, avg or count returns, whatever
\* the other filters (description_contains included), a mapping from group
\* to aggregate ordered by descending magnitude (count: descending count),
\* and the groups of a sum add up to the sum of the filtered amounts.
C24_GroupedMapping ==
    GroupedCall =>
        /\ "grouped_results" \in DOMAIN tool.outcome
        /\ LET items == tool.outcome.grouped_results
           IN  /\ \A i, j \in DOMAIN items :
                     i < j => Abs(items[i].value) >= Abs(items[j].value)
               /\ tool.args.operation = "sum" =>
                     SumValues(items) = SumAmount(Aggregated(tool.df, tool.args))

AnalyticTools ==
    {"query_transactions", "aggregate", "compare_periods", "find_recurring", "detect_anomalies"}

\* this step is a call of an analytic tool on the FinanceTools object
AnalyticCall ==
    /\ tool.pc # "idle"
    /\ tool' # tool
    /\ tool'.pc = "done"
    /\ tool'.name \in AnalyticTools

\* C25: every analytic operation computes its result from the full current
\* ledger: on an already constructed FinanceTools object, a call made after
\* a save stored new rows gives what the ledger as it is now gives, and an
\* unfiltered query_transactions counts the rows run_sql selects.
C25_ReadsCurrentLedger ==
    [][AnalyticCall =>
          /\ tool'.outcome =
                execute(tool'.name, load_transactions(transactions), transactions, tool'.args)
          /\ (tool'.name = "query_transactions" /\ tool'.args = NoArgs /\ transactions # <<>>) =>
                tool'.outcome.count = run_sql(SelectAll, transactions).value.count]_vars

\* the parameters without the account filters
OtherArgs(p) == [key \in DOMAIN p \ AccountFilters |-> p[key]]

\* the account filters alone
AccountArgs(p) == [key \in DOMAIN p \cap AccountFilters |-> p[key]]

\* a tool was called through execute with parameters its definition declares
DeclaredCall ==
    /\ tool.pc = "done"
    /\ tool.name \in ToolNames
    /\ DOMAIN tool.args \subseteq Declared(tool.name)
    /\ Required(tool.name) \subseteq DOMAIN tool.args

\* C26: every parameter a tool's definition declares is accepted and applied
\* by the method execute dispatches to: compare_periods, find_recurring and
\* detect_anomalies called with card_type, bank or account_last4 return
\* their normal result on the matching transactions, not an error result.
C26_DeclaredParametersApplied ==
    DeclaredCall =>
        /\ tool.outcome # [error |-> "TypeError"]
        /\ (tool.name \in {"compare_periods", "find_recurring", "detect_anomalies"}
              /\ DOMAIN tool.args \cap AccountFilters # {}) =>
              tool.outcome = execute(tool.name, Filtered(tool.df, AccountArgs(tool.args)),
                                     transactions, OtherArgs(tool.args))

(***************************************************************************)
(* The upload pipeline's properties.                                       *)
(***************************************************************************)
\* this step is the upload of a file that is not in the registry, with a
\* dialect, whose text holds a parseable transaction
UploadOfNewFile ==
    /\ draft' # draft
    /\ "name" \in DOMAIN draft'
    /\ ~is_file_imported(draft'.name)
    /\ draft'.statement_type \in {"credit", "debit"}
    /\ ~_parse_transactions(draft'.text).raised
    /\ _parse_transactions(draft'.text).value # <<>>

\* C27: the upload of a file not yet imported, with dialect credit or
\* debit, whose text holds at least one parseable transaction goes through
\* parse, sanitize, categorize and save and ends in success with the rows
\* in the ledger and the filename in the registry: it does not return the
\* failure outcome.
C27_UploadSucceeds ==
    [][UploadOfNewFile => ~(draft'.pc = "returned" /\ draft'.result = FALSE)]_vars

(***************************************************************************)
(* The bulk deletes' properties.                                           *)
(***************************************************************************)
\* this step is a delete that touched the ledger: no call of save or
\* categorize moved
LedgerDeleted == save' = save /\ cat' = cat /\ transactions' # transactions

\* C28: clear_transactions removes every ledger row and leaves the
\* ImportedFile registry and the merchant-category cache as they were; so a
\* save call under a filename imported before the clear still returns
\* alreadyImported = true with savedCount = 0, and the ledger stays empty.
C28_ClearKeepsRegistry ==
    [][/\ LedgerDeleted =>
             /\ transactions' = <<>>
             /\ imported_files' = imported_files
             /\ merchant_categories' = merchant_categories
       /\ \A p \in Procs :
             (/\ Begins(p)
              /\ transactions = <<>>
              /\ \E f \in imported_files : f.filename = save'[p].source_file)
             => /\ save'[p].pc = "returned"
                /\ save'[p].result =
                      [saved_count |-> 0, skipped_count |-> 0, already_imported |-> TRUE]
                /\ transactions' = <<>>]_vars

\* the ledger was cleared after a.pdf was imported with rows, the cache kept
\* its entries, and a save of rows under a.pdf returned alreadyImported
C28_Witness ==
    /\ transactions = <<>>
    /\ \E f \in imported_files : f.filename = "a.pdf" /\ f.transaction_count > 0
    /\ merchant_categories # <<>>
    /\ save[Importer].pc = "returned"
    /\ save[Importer].result.already_imported
    /\ save[Importer].source_file = "a.pdf"
    /\ save[Importer].df # <<>>

(***************************************************************************)
(* Repeated rows in one save call.                                         *)
(***************************************************************************)
\* the rows of DataFrame df that are the logical transaction of its row j
Repeats(df, j) == {i \in DOMAIN df : Logical(df[i]) = Logical(df[j])}

\* the call of client p returns: of the rows of its DataFrame that repeat
\* row j, one is among the rows it stored, with the category of the first
OneOfThemStored(p, j) ==
    LET df == save[p].df
        first == CHOOSE i \in Repeats(df, j) : \A h \in Repeats(df, j) : i <= h
        stored == Holding(save[p].pending, df[j])
    IN  /\ Cardinality(stored) = 1
        /\ \A k \in stored : save[p].pending[k].category = df[first].Category
        /\ save'[p].result.skipped_count >= Cardinality(Repeats(df, j)) - 1

\* C29 as stated: within a single save call, when k > 1 rows share date,
\* description and amount, exactly one of them is stored, carrying the
\* category of the first, and the other k - 1 are counted in skippedCount.
C29_OneOfRepeatedStored ==
    [][\A p \in Procs :
          Finishes(p) =>
             \A j \in DOMAIN save[p].df :
                Cardinality(Repeats(save[p].df, j)) > 1 => OneOfThemStored(p, j)]_vars

\* C29, amended: that holds when the ledger does not hold the transaction
\* before the call; when it does, none of the k rows is stored and all k are
\* skipped.  In both cases skippedCount is the number of rows given less the
\* number of distinct transactions the ledger did not hold.
C29_OneOfRepeatedStoredIfNew ==
    [][\A p \in Procs :
          Finishes(p) =>
             LET df == save[p].df
                 new == {j \in DOMAIN df : Holding(transactions, df[j]) = {}}
             IN  /\ \A j \in DOMAIN df :
                       Cardinality(Repeats(df, j)) > 1 =>
                          IF j \in new THEN OneOfThemStored(p, j)
                          ELSE Holding(save[p].pending, df[j]) = {}
                 /\ save'[p].result.skipped_count =
                       Len(df) - Cardinality({Logical(df[j]) : j \in new})]_vars

\* a call given the same purchase twice, categorized "other" and then
\* "shopping", stored one row, "other", and skipped one
C29_Witness ==
    \E p \in Procs :
        /\ save[p].pc = "returned"
        /\ save[p].df = <<R2, R1>>
        /\ save[p].result = [saved_count |-> 1, skipped_count |-> 1, already_imported |-> FALSE]
        /\ \E k \in Holding(transactions, R1) : transactions[k].category = "other"
        /\ Cardinality(Holding(transactions, R1)) = 1

(***************************************************************************)
(* The fallback category in the cache.                                     *)
(***************************************************************************)
\* the categorize call of client p ends in this step, returning or raising
CatEnds(p) == cat[p].pc = "gemini" /\ cat'[p].pc \in {"returned", "raised"}

\* C30: an "other" the classifier assigned to a merchant text because the
\* response was unparseable, too short or out of the vocabulary is in the
\* persistent cache when the call ends, like any other result; as long as
\* the cache holds it the text is not sent to the external service again,
\* and a later categorize call gives its rows the cached "other".
C30_FallbackIsCached ==
    [][\A p \in Procs :
          /\ CatEnds(p) =>
                \A k \in DOMAIN cat'[p].all_categories :
                   cat'[p].all_categories[k] = "other" =>
                      /\ cat'[p].uncategorized[k] \in DOMAIN merchant_categories'
                      /\ merchant_categories'[cat'[p].uncategorized[k]] = "other"
          /\ \A m \in DOMAIN merchant_categories :
                merchant_categories[m] = "other" => sent'[m] = sent[m]
          /\ (CatBegins(p) /\ cat'[p].pc = "returned") =>
                \A k \in DOMAIN cat'[p].df :
                   (/\ cat'[p].df[k].Description \in DOMAIN merchant_categories
                    /\ merchant_categories[cat'[p].df[k].Description] = "other")
                   => cat'[p].result[k].Category = "other"]_vars

====
